---- MODULE Spec2Model ----
(***************************************************************************)
(* A model of the practical-sqlalchemy tutorial scripts.                   *)
(*                                                                         *)
(* Part 1 (specification Spec) runs each script that opens a connection or *)
(* a session as a straight-line program of library calls: which scope is   *)
(* opened, what is executed through it, where it commits, rolls back and   *)
(* is released, and where a call raises.  The library calls have the       *)
(* meaning the ORM library documents for them: autobegin, rollback on      *)
(* release, commit on the normal exit of engine.begin(), autoflush before  *)
(* a Session query, one() raising unless exactly one row matches, mapper   *)
(* configuration on the first instantiation of a mapped class, the         *)
(* identity map of a Session, the delete cascades of a relationship and    *)
(* the two sides of a back_populates pair in memory.                       *)
(*                                                                         *)
(* Parts 2 to 8 model the definitions that come without a script, each     *)
(* under clients that use them: the validators of simple-validators.py     *)
(* (SpecValidators), the hybrid property of descriptors-and-hybrids.py     *)
(* (SpecHybrid), the nested composite of nesting-composites.py             *)
(* (SpecComposite), the version counter mapped by                          *)
(* simple-version-counting.py (SpecVersion), the shared start_date column  *)
(* of single-table-inheritance.py (SpecInheritance), the functions of      *)
(* metadata.py (SpecMetadata) and the back_populates declarations of the   *)
(* modules with mapped classes, joined-table-inheritance.py among them     *)
(* (SpecMappers).                                                          *)
(***************************************************************************)
EXTENDS Integers, Sequences, FiniteSets, TLC

VARIABLES
    script,     \* the script being run
    program,    \* its statements: Program(script)
    pc,         \* index of the next statement of program
    status,     \* "running" | "done" | "raised"
    err,        \* name of the uncaught exception, "" when none
    scopes,     \* scope id -> state of that connection / session
    cur,        \* the database as the open transaction sees it
    committed,  \* the database as of the last commit
    lost,       \* history: releases that threw away uncommitted writes
    caught,     \* history: exceptions swallowed by a try/except
    build,      \* what the installed driver does where the library leaves it open
    objects     \* the two sides of User.addresses / Address.user in memory

VARIABLES
    \* part 2, simple-validators.py
    mappers,    \* "unconfigured" | "configured" | "failed"
    email,      \* class -> the email attribute of an instance of it
    addresses,  \* User.addresses of a User instance
    call        \* the last assignment or append and the exception it raised

scriptVars ==
    <<script, program, pc, status, err, scopes, cur, committed, lost, caught, build,
      objects>>

validatorVars == <<mappers, email, addresses, call>>

VARIABLES
    \* part 3, descriptors-and-hybrids.py: an EmailAddressPropertyExpression
    _email,     \* the attribute behind the email column, also the stored value
    assigned,   \* the value last given to the email setter, None when there is none
    got         \* the last read of email: on the instance or in a query

hybridVars == <<_email, assigned, got>>

VARIABLES
    \* part 4, nesting-composites.py: a HasVertex and its row
    columns,    \* <<x1, y1, x2, y2>> of the has_vertex row
    vertex,     \* <<the Vertex held in HasVertex.vertex>>, <<>> while not loaded
    origin,     \* "row" when vertex was generated from the row, "client" when assigned
    values      \* what vertex.__composite_values__() last returned, <<>> before

compositeVars == <<columns, vertex, origin, values>>

VARIABLES
    \* part 5, simple-version-counting.py: one user row and the sessions using it
    user,       \* the row of table user
    sessions,   \* session -> the User it holds: loaded version_id, name, changes
    flushes     \* history: the UPDATE and DELETE statements that matched the row

versionVars == <<user, sessions, flushes>>

VARIABLES
    \* part 6, single-table-inheritance.py: the employee table and its classes
    employee,       \* the columns of Employee.__table__, in order: [name, id]
    start_date,     \* subclass -> id of the Column its start_date maps, 0 before
    columns_made,   \* how many Column(DateTime) objects the declared_attrs built
    import_error,   \* the exception a class declaration raised, "" when none
    employees       \* rows of the employee table: <<type, column id, start date>>

inheritanceVars == <<employee, start_date, columns_made, import_error, employees>>

VARIABLES
    \* part 7, metadata.py: the functions of the module and its engine
    engine,         \* the in-memory database of the engine: tables and rows
    metadatas,      \* the MetaData objects made so far: the tables of each
    orm,            \* orm_based_approach: where it is and its two metadata
    last_create,    \* the last create_all: line, tables before, CREATEs, error
    calls           \* the functions the client has called, in order

metadataVars == <<engine, metadatas, orm, last_create, calls>>

VARIABLES
    \* part 8, the mapped classes of a module and their relationship()s
    module,         \* the file whose classes a client has imported
    configured,     \* "no" | "yes" | "failed": the mappers of the module
    reverse,        \* the pairs <<relationship, its reverse property>> linked
    constructed     \* the constructor calls so far: [cls, exc], "" for none

mapperVars == <<module, configured, reverse, constructed>>

vars ==
    <<scriptVars, validatorVars, hybridVars, compositeVars, versionVars,
      inheritanceVars, metadataVars, mapperVars>>

----------------------------------------------------------------------------
(* Statements.  Every statement of a program is a record of one shape:     *)
(* op the library call, scope the connection or session it goes through,   *)
(* tab the table written, ref the table a looked-up key comes from, tabs   *)
(* every table the SQL names, data the parameter rows, flt the WHERE       *)
(* clause of a one(), try whether a try/except encloses it, line its       *)
(* source line.                                                            *)

NoData == <<>>

Stmt(op, scope, kind, tab, ref, tabs, data, flt, try, line) ==
    [op |-> op, scope |-> scope, kind |-> kind, tab |-> tab, ref |-> ref,
     tabs |-> tabs, data |-> data, flt |-> flt, try |-> try, line |-> line]

\* a parameter row: key k (0: assigned by the database), string column v,
\* second string w (the new value of an UPDATE, or the parent looked up by
\* name), integer column n
P(k, v, w, n) == [k |-> k, v |-> v, w |-> w, n |-> n]

CreateAll(tabs, line) ==
    Stmt("create_all", 0, "ddl", "", "", tabs, NoData, "", FALSE, line)
Connect(s, line) == Stmt("open", s, "connect", "", "", {}, NoData, "", FALSE, line)
Begin(s, line) == Stmt("open", s, "begin", "", "", {}, NoData, "", FALSE, line)
WithSession(s, line) ==
    Stmt("open", s, "with_session", "", "", {}, NoData, "", FALSE, line)
NewSession(s, line) ==
    Stmt("open", s, "session", "", "", {}, NoData, "", FALSE, line)
Exec(s, kind, tab, data, line) ==
    Stmt("exec", s, kind, tab, "", {tab}, data, "", FALSE, line)
ExecRef(s, kind, tab, ref, data, line) ==
    Stmt("exec", s, kind, tab, ref, {tab, ref}, data, "", FALSE, line)
Select(s, tabs, line) ==
    Stmt("exec", s, "select", "", "", tabs, NoData, "", FALSE, line)
TrySelect(s, tabs, line) ==
    Stmt("exec", s, "select", "", "", tabs, NoData, "", TRUE, line)
Commit(s, line) == Stmt("commit", s, "", "", "", {}, NoData, "", FALSE, line)
Rollback(s, line) == Stmt("rollback", s, "", "", "", {}, NoData, "", FALSE, line)
Exit(s, line) == Stmt("exit", s, "", "", "", {}, NoData, "", FALSE, line)
Close(s, line) == Stmt("close", s, "", "", "", {}, NoData, "", FALSE, line)
Add(s, kind, tab, data, line) ==
    Stmt("add", s, kind, tab, "", {tab}, data, "", FALSE, line)
AddRef(s, kind, tab, ref, data, line) ==
    Stmt("add", s, kind, tab, ref, {tab, ref}, data, "", FALSE, line)
AddUuid(s, kind, tab, data, line) ==
    Stmt("add", s, kind, tab, "", {tab}, data, "uuid", FALSE, line)
Flush(s, line) == Stmt("flush", s, "", "", "", {}, NoData, "", FALSE, line)
One(s, tabs, flt, try, line) ==
    Stmt("one", s, "one", "", "", tabs, NoData, flt, try, line)
InitObj(line) == Stmt("init", 0, "", "", "", {}, NoData, "", FALSE, line)
\* attribute or collection access on a loaded object: tabs the tables a
\* lazy load reads, idx/len the subscript and the length of the collection
Attr(s, kind, tabs, idx, len, try, line) ==
    Stmt("attr", s, kind, "", "", tabs, <<P(idx, "", "", len)>>, "", try, line)
Fetch(s, line) == Stmt("fetch", s, "", "", "", {}, NoData, "", FALSE, line)

Scalar(s, tabs, flt, try, line) ==
    Stmt("one", s, "scalar", "", "", tabs, NoData, flt, try, line)
\* Result.scalar_one() of a SELECT of one column
ScalarOne(s, tabs, flt, try, line) ==
    Stmt("one", s, "scalar_one", "", "", tabs, NoData, flt, try, line)
\* Query.first() of a query for a mapped class
First(s, tabs, flt, line) ==
    Stmt("one", s, "first", "", "", tabs, NoData, flt, FALSE, line)
\* Session.get(cls, key)
Get(s, tabs, flt, line) ==
    Stmt("one", s, "get", "", "", tabs, NoData, flt, FALSE, line)
\* a change of one side of User.addresses / Address.user in memory: kind
\* "append" (user.addresses.append(address)), "remove", or "set"
\* (address.user = user, also as the constructor argument user=)
Relate(kind, address, user_, line) ==
    Stmt("relate", 0, kind, "", "", {}, <<P(0, address, user_, 0)>>, "", FALSE, line)

----------------------------------------------------------------------------
(* The programs.  In table_name the key k is column x and n is column y;   *)
(* in the user tables v is the name; in the address tables v is the email  *)
(* address and n the user_id.                                              *)

TransactionPy ==
    << Connect(1, 6), Select(1, {}, 7), Exit(1, 8),
       \* commit as you go
       Connect(2, 11),
       Exec(2, "ddl", "table_name", NoData, 12),
       Exec(2, "insert", "table_name",
            <<P(1, "", "", 1), P(2, "", "", 4)>>, 13),
       Commit(2, 17), Exit(2, 17),
       \* begin once
       Begin(3, 20),
       Exec(3, "insert", "table_name",
            <<P(6, "", "", 8), P(9, "", "", 10)>>, 21),
       Exit(3, 24),
       Connect(4, 27), Select(4, {"table_name"}, 28), Exit(4, 31),
       Connect(5, 34), Select(5, {"table_name"}, 35), Exit(5, 38),
       Connect(6, 41), Select(6, {"table_name"}, 42), Exit(6, 45),
       Connect(7, 48), Select(7, {"table_name"}, 49), Exit(7, 52),
       Connect(8, 55), Select(8, {"table_name"}, 56), Exit(8, 61),
       Connect(9, 64),
       Exec(9, "insert", "table_name",
            <<P(11, "", "", 12), P(13, "", "", 14)>>, 65),
       Commit(9, 69), Exit(9, 69),
       WithSession(10, 73), Select(10, {"table_name"}, 74), Exit(10, 76),
       \* commit as you go with Session
       WithSession(11, 79),
       Exec(11, "update_k", "table_name",
            <<P(9, "", "", 11), P(13, "", "", 15)>>, 80),
       Commit(11, 84), Exit(11, 84) >>

UserTables == {"user_account", "address"}

ThreeUsers(s, l1, l2) ==
    << Connect(s, l1),
       Exec(s, "insert", "user_account", <<P(0, "spongebob", "", 0)>>, l1 + 1),
       Commit(s, l1 + 2), Exit(s, l1 + 2),
       Connect(s + 1, l2),
       Exec(s + 1, "insert", "user_account",
            <<P(0, "sandy", "", 0), P(0, "patrick", "", 0)>>, l2 + 1),
       Commit(s + 1, l2 + 8), Exit(s + 1, l2 + 8) >>

ThreeAddresses(s, tab, ref, l) ==
    << Connect(s, l),
       ExecRef(s, "insert", tab, ref,
               <<P(0, "spongebob@sqlalchemy.org", "spongebob", 0),
                 P(0, "sandy@sqlalchemy.org", "sandy", 0),
                 P(0, "sandy@squirrelpower.org", "sandy", 0)>>, l + 1),
       Commit(s, l + 9), Exit(s, l + 9) >>

InsertionPy ==
    << CreateAll(UserTables, 24) >>
    \o ThreeUsers(1, 32, 38)
    \o ThreeAddresses(3, "address", "user_account", 54)

UpdateDeletePy ==
    << CreateAll(UserTables, 26), CreateAll(UserTables, 58) >>
    \o ThreeUsers(1, 62, 66)
    \o ThreeAddresses(3, "address", "user_account", 82)
    \o << Connect(4, 108),
          Exec(4, "update_v", "user_account",
               <<P(0, "jack", "ed", 0), P(0, "wendy", "mary", 0),
                 P(0, "jim", "jake", 0)>>, 109),
          Exit(4, 116),
          Begin(5, 160),
          Exec(5, "update_col", "user_account", <<P(0, "patrick", "", 0)>>, 161),
          Exit(5, 166) >>

\* a with-block that only reads
ReadBlock(s, kind, tabs, l1, l2) ==
    << Stmt("open", s, kind, "", "", {}, NoData, "", FALSE, l1),
       Select(s, tabs, l1 + 1), Exit(s, l2) >>

SelectionPy ==
    << CreateAll(UserTables, 28), CreateAll(UserTables, 60) >>
    \o ThreeUsers(1, 64, 68)
    \o ThreeAddresses(3, "address", "user_account", 84)
    \o ReadBlock(4, "connect", {"user_account"}, 98, 100)
    \o ReadBlock(5, "with_session", {"user_account"}, 103, 105)
    \* the session of the with-block is used again after the block
    \o << Select(5, {"user_account"}, 112), Select(5, {"user_account"}, 116),
          Select(5, {"user_account"}, 121), Select(5, UserTables, 124) >>
    \o ReadBlock(6, "connect", {"user_account"}, 136, 138)
    \o ReadBlock(7, "connect", {"user_account"}, 146, 147)
    \o ReadBlock(8, "connect", {"user_account"}, 155, 157)
    \o ReadBlock(9, "connect", UserTables, 224, 229)
    \o ReadBlock(10, "with_session", UserTables, 284, 286)
    \o ReadBlock(11, "with_session", UserTables, 292, 294)
    \o ReadBlock(12, "connect", UserTables, 320, 329)
    \* result.all() of the block's result, after the block
    \o << Fetch(12, 330) >>
    \o ReadBlock(13, "connect", {"user_account"}, 357, 359)
    \o ReadBlock(14, "connect", UserTables, 368, 370)
    \o ReadBlock(15, "with_session", {"user_account"}, 378, 380)
    \o ReadBlock(16, "with_session", {"user_account"}, 384, 386)
    \o ReadBlock(17, "connect", UserTables, 395, 397)
    \o ReadBlock(18, "connect", UserTables, 404, 406)
    \o ReadBlock(19, "connect", {}, 412, 414)
    \o ReadBlock(20, "connect", UserTables, 443, 445)
    \o ReadBlock(21, "connect", UserTables, 453, 455)
    \o ReadBlock(22, "connect", UserTables, 464, 466)
    \o ReadBlock(23, "connect", {}, 471, 473)
    \o ReadBlock(24, "connect", {"user_account"}, 482, 484)

ApiTables == {"users", "addresses"}

OrmApiPy ==
    << CreateAll(ApiTables, 47), InitObj(49), NewSession(1, 57),
       Add(1, "ins", "users", <<P(0, "ed", "edsnickname", 0)>>, 60),
       First(1, {"users"}, "name_ed", 62),
       Add(1, "upd_w", "users", <<P(0, "ed", "eddie", 0)>>, 66),
       Commit(1, 70),
       Attr(1, "get", {"users"}, 0, 0, FALSE, 72),
       Add(1, "upd", "users", <<P(0, "ed", "Edwardo", 0)>>, 74),
       Add(1, "ins", "users", <<P(0, "fakeuser", "12345", 0)>>, 76),
       Select(1, {"users"}, 78),
       Rollback(1, 80),
       Attr(1, "get", {"users"}, 0, 0, FALSE, 81),
       Select(1, {"users"}, 84), Select(1, {"users"}, 86),
       Select(1, {"users"}, 89), Select(1, {"users"}, 92),
       Select(1, {"users"}, 95), Select(1, {"users"}, 99),
       Select(1, {"users"}, 102), Select(1, {"users"}, 105),
       Select(1, {"users"}, 108), Select(1, {"users"}, 111),
       Select(1, {"users"}, 119), Select(1, {"users"}, 120),
       One(1, {"users"}, "name_like_ed", TRUE, 123),
       One(1, {"users"}, "name_like_ed_and_id_99", TRUE, 128),
       Scalar(1, {"users"}, "name_ed", FALSE, 133),
       Select(1, {"users"}, 135),
       One(1, {"users"}, "id_lt_224_and_name_fred", FALSE, 138),
       Select(1, {"users"}, 143), Select(1, {"users"}, 150),
       Select(1, {"users"}, 155), Select(1, {"users"}, 158),
       Select(1, {"users"}, 161), Select(1, {"users"}, 164),
       Select(1, {"users"}, 165),
       CreateAll(ApiTables, 168),
       \* jack is new and has no addresses
       Attr(1, "getitem", {}, 1, 0, FALSE, 172),
       Attr(1, "getitem", {}, 1, 0, FALSE, 173),
       Add(1, "ins", "users", <<P(0, "jack", "", 0)>>, 175),
       Commit(1, 176),
       One(1, {"users"}, "name_jack", FALSE, 178),
       Attr(1, "get", {"addresses"}, 0, 0, FALSE, 180),
       Select(1, ApiTables, 183), Select(1, ApiTables, 190),
       Select(1, ApiTables, 204), Select(1, ApiTables, 222),
       Select(1, ApiTables, 231), Select(1, ApiTables, 236),
       Select(1, ApiTables, 239), Select(1, ApiTables, 242),
       Select(1, ApiTables, 247),
       One(1, ApiTables, "name_jack", FALSE, 249),
       One(1, ApiTables, "name_jack", FALSE, 257),
       Select(1, ApiTables, 266),
       Select(1, {"users"}, 274),
       Attr(1, "delitem", {"addresses"}, 1, 0, FALSE, 275),
       Select(1, {"addresses"}, 276),
       Add(1, "del", "users", <<P(0, "jack", "", 0)>>, 280),
       Select(1, {"users"}, 281), Select(1, {"addresses"}, 282),
       CreateAll(ApiTables \cup {"posts", "keywords", "post_keywords"}, 328),
       One(1, {"users"}, "name_wendy", FALSE, 330),
       Add(1, "ins", "posts", <<P(0, "Wendy's blog post", "", 0)>>, 332),
       Add(1, "ins", "keywords", <<P(0, "wendy", "", 0)>>, 334),
       Add(1, "ins", "keywords", <<P(0, "firstpost", "", 0)>>, 335),
       Select(1, {"posts", "keywords", "post_keywords"}, 337),
       Select(1, {"posts", "keywords", "post_keywords"}, 339),
       Select(1, {"posts", "keywords", "post_keywords"}, 343) >>

OrmDataManipulationPy ==
    << InitObj(39), NewSession(1, 45),
       Add(1, "ins", "user_account", <<P(0, "sandy", "Sandy Cheeks", 0)>>, 46),
       Add(1, "ins", "user_account", <<P(0, "patrick", "Patrick Star", 0)>>, 47),
       Add(1, "ins", "user_account",
           <<P(0, "squidward", "Squidward Tentacles", 0)>>, 48),
       Add(1, "ins", "user_account", <<P(0, "ehkrabs", "Eugene H. Krabs", 0)>>, 49),
       Flush(1, 51),
       Get(1, {"user_account"}, "id_3", 55),
       One(1, {"user_account"}, "name_sandy", FALSE, 59),
       Add(1, "upd_w", "user_account", <<P(0, "sandy", "Sandy Squirrel", 0)>>, 61),
       ScalarOne(1, {"user_account"}, "id_1", FALSE, 63),
       Exec(1, "upd_w", "user_account",
            <<P(0, "sandy", "Sandy Squirrel Extraordinaire", 0)>>, 67),
       Get(1, {"user_account"}, "id_2", 74),
       Add(1, "del", "user_account", <<P(0, "patrick", "", 0)>>, 75),
       Select(1, {"user_account"}, 76),
       Get(1, {"user_account"}, "id_3", 81),
       Exec(1, "delete_v", "user_account", <<P(0, "squidward", "", 0)>>, 82),
       Rollback(1, 85),
       Attr(1, "get", {"user_account"}, 0, 0, FALSE, 88),
       One(1, {"user_account"}, "name_patrick", FALSE, 91),
       Close(1, 93),
       Attr(1, "get", {"user_account"}, 0, 0, TRUE, 96),
       Add(1, "upd_col", "user_account", <<P(0, "squidward", "", 0)>>, 100),
       Attr(1, "get", {"user_account"}, 0, 0, FALSE, 101) >>

OrmQuickstartPy ==
    << CreateAll(UserTables, 35),
       WithSession(1, 37), InitObj(38),
       Add(1, "ins", "user_account", <<P(0, "spongebob", "", 0)>>, 53),
       AddRef(1, "ins", "address", "user_account",
              <<P(0, "spongebob@sqlalchemy.org", "spongebob", 0)>>, 53),
       Add(1, "ins", "user_account", <<P(0, "sandy", "", 0)>>, 53),
       AddRef(1, "ins", "address", "user_account",
              <<P(0, "sandy@sqlalchemy.org", "sandy", 0)>>, 53),
       AddRef(1, "ins", "address", "user_account",
              <<P(0, "sandy@squirrelpower.org", "sandy", 0)>>, 53),
       Add(1, "ins", "user_account", <<P(0, "patrick", "", 0)>>, 53),
       Commit(1, 54), Exit(1, 54),
       NewSession(2, 56),
       Select(2, {"user_account"}, 59),
       One(2, UserTables, "email_sandy_sqlalchemy", FALSE, 68),
       One(2, {"user_account"}, "name_patrick", FALSE, 72),
       Attr(2, "append", {"address"}, 0, 0, FALSE, 73),
       Relate("append", "patrickstar", "patrick", 73),
       AddRef(2, "ins", "address", "user_account",
              <<P(0, "patrickstar@sqlalchemy.org", "patrick", 0)>>, 73),
       Add(2, "upd", "address",
           <<P(0, "sandy@sqlalchemy.org", "sandy_cheeks@sqlalchemy.org", 0)>>, 74),
       Commit(2, 75),
       Get(2, {"user_account"}, "id_2", 77),
       Attr(2, "remove", {"address"}, 0, 0, FALSE, 78),
       Relate("remove", "sandy_address", "sandy", 78),
       AddRef(2, "remove", "address", "user_account",
              <<P(0, "sandy_cheeks@sqlalchemy.org", "", 0)>>, 78),
       Flush(2, 79),
       Attr(2, "get", UserTables, 0, 0, FALSE, 81),
       AddRef(2, "delete", "user_account", "address",
              <<P(0, "patrick", "", 0)>>, 81),
       Commit(2, 82) >>

RelatedTables == {"user_account", "address", "user_strict", "address_strict"}

FiveUsers(s, tab, l) ==
    << Add(s, "ins", tab, <<P(0, "spongebob", "", 0)>>, l),
       Add(s, "ins", tab, <<P(0, "sandy", "", 0)>>, l + 1),
       Add(s, "ins", tab, <<P(0, "patrick", "", 0)>>, l + 2),
       Add(s, "ins", tab, <<P(0, "squidward", "", 0)>>, l + 3),
       Add(s, "ins", tab, <<P(0, "ehkrabs", "", 0)>>, l + 4),
       Flush(s, l + 6), Commit(s, l + 7) >>

OrmRelatedObjectsPy ==
    << NewSession(1, 13), CreateAll(RelatedTables, 68), InitObj(70) >>
    \o FiveUsers(1, "user_account", 76)
    \o ThreeAddresses(2, "address", "user_account", 96)
    \o << Relate("append", "a1", "u1", 111),
          Relate("set", "a2", "u1", 115),
          Relate("set", "a2", "u1", 119),
          Add(1, "ins", "user_account", <<P(0, "pkrabs", "", 0)>>, 121),
          AddRef(1, "ins", "address", "user_account",
                 <<P(0, "pearl.krabs@gmail.com", "pkrabs", 0)>>, 121),
          AddRef(1, "ins", "address", "user_account",
                 <<P(0, "pearl@aol.com", "pkrabs", 0)>>, 121),
          Commit(1, 129),
          Attr(1, "get", {"user_account"}, 0, 0, FALSE, 131),
          Attr(1, "get", {"address"}, 0, 0, FALSE, 132),
          Select(1, UserTables, 159), Select(1, UserTables, 164),
          Select(1, UserTables, 167), Select(1, UserTables, 170),
          Select(1, UserTables, 177), Select(1, UserTables, 183),
          Select(1, UserTables, 190), Select(1, UserTables, 200),
          Select(1, UserTables, 219) >>
    \o FiveUsers(1, "user_strict", 228)
    \o ThreeAddresses(3, "address_strict", "user_strict", 248)
    \o << TrySelect(1, {"user_strict"}, 260),
          Attr(1, "raise_on_sql", {"address_strict"}, 0, 0, TRUE, 261),
          Select(1, {"user_strict", "address_strict"}, 266) >>

MapperClassBehaviorPy ==
    << InitObj(28), NewSession(1, 74),
       CreateAll({"declarative_user", "address"}, 76),
       Add(1, "ins", "declarative_user", <<P(0, "sandy", "", 0)>>, 83),
       Add(1, "ins", "declarative_user", <<P(0, "patrick", "", 0)>>, 83),
       Add(1, "ins", "declarative_user", <<P(0, "squidward", "", 0)>>, 83),
       Add(1, "ins", "declarative_user", <<P(0, "ehkrabs", "", 0)>>, 83),
       Commit(1, 84),
       Select(1, {"declarative_user"}, 86),
       Attr(1, "get", {}, 0, 0, FALSE, 87),
       Attr(1, "get", {}, 0, 0, FALSE, 97),
       Add(1, "upd_col", "declarative_user", <<P(0, "sandy", "", 0)>>, 99) >>

\* version_uuid (column n) is given a uuid.UUID object, not a string; the
\* two uuid4() values are 1 and 2
ConditionalVersionCountersPy ==
    << NewSession(1, 10), CreateAll({"user"}, 23), InitObj(25),
       AddUuid(1, "ins", "user", <<P(0, "u1", "", 1)>>, 26),
       Commit(1, 27),
       Add(1, "upd", "user", <<P(0, "u1", "u2", 0)>>, 29),
       AddUuid(1, "upd_n", "user", <<P(0, "u2", "", 2)>>, 30),
       Commit(1, 31),
       Add(1, "upd", "user", <<P(0, "u2", "u3", 0)>>, 34),
       Commit(1, 35) >>

Scripts ==
    {"transaction.py", "insertion.py", "update_delete.py", "selection.py",
     "orm-api.py", "orm-data-manipulation.py", "orm-quickstart.py",
     "orm-related-objects.py", "mapper-class-behavior.py",
     "conditional-version-counters.py"}

Program(s) ==
    CASE s = "transaction.py" -> TransactionPy
      [] s = "insertion.py" -> InsertionPy
      [] s = "update_delete.py" -> UpdateDeletePy
      [] s = "selection.py" -> SelectionPy
      [] s = "orm-api.py" -> OrmApiPy
      [] s = "orm-data-manipulation.py" -> OrmDataManipulationPy
      [] s = "orm-quickstart.py" -> OrmQuickstartPy
      [] s = "orm-related-objects.py" -> OrmRelatedObjectsPy
      [] s = "mapper-class-behavior.py" -> MapperClassBehaviorPy
      [] s = "conditional-version-counters.py" -> ConditionalVersionCountersPy

----------------------------------------------------------------------------
(* The relationship() declarations of the scripts that instantiate mapped  *)
(* classes, and the foreign keys of their tables.                          *)

Rel(cls, tab, attr, target, ttab, back) ==
    [cls |-> cls, tab |-> tab, attr |-> attr, target |-> target,
     ttab |-> ttab, back |-> back]

UserAddressRels(utab, atab) ==
    { Rel("User", utab, "addresses", "Address", atab, "user"),
      Rel("Address", atab, "user", "User", utab, "addresses") }

Relationships(s) ==
    CASE s = "orm-api.py" -> UserAddressRels("users", "addresses")
      [] s = "orm-data-manipulation.py" -> UserAddressRels("user_account", "address")
      [] s = "orm-quickstart.py" -> UserAddressRels("user_account", "address")
      [] s = "orm-related-objects.py" ->
            UserAddressRels("user_account", "address") \cup
            { Rel("UserStrict", "user_strict", "addresses",
                  "AddressStrict", "address_strict", "user"),
              Rel("AddressStrict", "address_strict", "user",
                  "User", "user_account", "addresses") }
      [] s = "mapper-class-behavior.py" ->
            { Rel("DeclarativeUser", "declarative_user", "addresses",
                  "Address", "address", "user"),
              Rel("Address", "address", "user",
                  "DeclarativeUser", "declarative_user", "addresses") }
      [] s = "joined-table-inheritance.py" ->
            { Rel("Employee", "employee", "company_employees",
                  "Company", "company", "employees"),
              Rel("Engineer", "engineer", "company_employees",
                  "Company", "company", "employees"),
              Rel("Engineer", "engineer", "company_engineers",
                  "Company", "company", "engineers"),
              Rel("Manager", "manager", "company_employees",
                  "Company", "company", "employees"),
              Rel("Manager", "manager", "company_managers",
                  "Company", "company", "managers"),
              Rel("Company", "company", "employees",
                  "Employee", "employee", "company_employees"),
              Rel("Company", "company", "managers",
                  "Manager", "manager", "company_managers"),
              Rel("Company", "company", "engineers",
                  "Manager", "manager", "company_engineers") }
      [] s = "single-table-inheritance.py" ->
            { Rel("Company", "company", "employees", "Employee", "employee", "company"),
              Rel("Employee", "employee", "company", "Company", "company", "employees") }
      [] s = "simple-validators.py" ->
            { Rel("User", "user", "addresses", "Address", "address_backref", ""),
              Rel("UserRedundant", "user_redundant", "addresses",
                  "Address", "address_backref", ""),
              Rel("UserBackref", "user_backref", "addresses",
                  "Address", "address_backref", "") }
      [] OTHER -> {}

\* <<table, referenced table>>
ForeignKeys(s) ==
    CASE s = "orm-api.py" -> { <<"addresses", "users">> }
      [] s = "orm-data-manipulation.py" -> { <<"address", "user_account">> }
      [] s = "orm-quickstart.py" -> { <<"address", "user_account">> }
      [] s = "orm-related-objects.py" ->
            { <<"address", "user_account">>, <<"address_strict", "user_account">> }
      [] s = "mapper-class-behavior.py" -> { <<"address", "declarative_user">> }
      [] s = "joined-table-inheritance.py" ->
            { <<"employee", "company">>, <<"engineer", "employee">>,
              <<"engineer", "company">>, <<"manager", "employee">>,
              <<"manager", "company">> }
      [] s = "single-table-inheritance.py" -> { <<"employee", "company">> }
      [] s = "simple-validators.py" -> { <<"address_backref", "user_backref">> }
      [] OTHER -> {}

\* a join condition can be derived: a foreign key links the two tables
Joinable(s, r) ==
    <<r.tab, r.ttab>> \in ForeignKeys(s) \/ <<r.ttab, r.tab>> \in ForeignKeys(s)

\* back_populates, where given, names a relationship of the target that
\* points back
BackPopulated(s, r) ==
    \/ r.back = ""
    \/ \E q \in Relationships(s) :
        q.cls = r.target /\ q.attr = r.back /\ q.target = r.cls

ConfigureError(s) ==
    IF \E r \in Relationships(s) : ~Joinable(s, r) THEN "NoForeignKeysError"
    ELSE IF \E r \in Relationships(s) : ~BackPopulated(s, r) THEN "ArgumentError"
    ELSE ""

----------------------------------------------------------------------------
(* The database: the tables that exist and their rows [t, k, v, n, w]: w   *)
(* is a second string column (the nickname in users, the fullname in       *)
(* user_account of orm-data-manipulation.py), "" where it is not followed. *)

Row(t, k, v, n) == [t |-> t, k |-> k, v |-> v, n |-> n, w |-> ""]

EmptyDb == [tables |-> {}, rows |-> {}]

Max(S) == CHOOSE x \in S : \A y \in S : y <= x

Min(S) == CHOOSE x \in S : \A y \in S : x <= y

\* the key an INSERT without a key gets
NextKey(rows, t) ==
    LET ks == {r.k : r \in {x \in rows : x.t = t}}
    IN  IF ks = {} THEN 1 ELSE Max(ks) + 1

\* SELECT id FROM ref WHERE name = :name as a scalar subquery; 0 is NULL
Lookup(rows, ref, name) ==
    LET ks == {r.k : r \in {x \in rows : x.t = ref /\ x.v = name}}
    IN  IF ks = {} THEN 0 ELSE Min(ks)

\* a relationship declared without a cascade option
NoCascade(s, tab) == {}

\* the cascade option of the relationship whose parent table is tab, as far
\* as deletes go: cascade="all, delete-orphan" (orm-quickstart.py line 16),
\* cascade="all, delete, delete-orphan" (orm-api.py line 26)
Cascade(s, tab) ==
    IF \/ s = "orm-quickstart.py" /\ tab = "user_account"
       \/ s = "orm-api.py" /\ tab = "users"
    THEN {"delete", "delete-orphan"}
    ELSE {}

\* an UPDATE that leaves out its WHERE clause
ApplyOneNoWhere(rows, kind, tab, ref, d) ==
    IF kind \in {"insert", "ins"}
    THEN rows \cup { Row(tab, d.k, d.v, d.n) }
    ELSE { IF r.t = tab THEN [r EXCEPT !.n = d.n] ELSE r : r \in rows }

ApplyOne(rows, kind, tab, ref, d) ==
    CASE kind \in {"insert", "ins"} ->
            rows \cup { [Row(tab,
                             IF d.k = 0 THEN NextKey(rows, tab) ELSE d.k,
                             d.v,
                             IF ref = "" THEN d.n ELSE Lookup(rows, ref, d.w))
                         EXCEPT !.w = IF ref = "" THEN d.w ELSE ""] }
      [] kind = "update_k" ->
            { IF r.t = tab /\ r.k = d.k THEN [r EXCEPT !.n = d.n] ELSE r : r \in rows }
      [] kind \in {"update_v", "upd"} ->
            { IF r.t = tab /\ r.v = d.v THEN [r EXCEPT !.v = d.w] ELSE r : r \in rows }
      [] kind = "upd_w" ->
            { IF r.t = tab /\ r.v = d.v THEN [r EXCEPT !.w = d.w] ELSE r : r \in rows }
      [] kind = "upd_n" ->
            { IF r.t = tab /\ r.v = d.v THEN [r EXCEPT !.n = d.n] ELSE r : r \in rows }
      [] kind \in {"delete_v", "del"} ->
            { r \in rows : ~(r.t = tab /\ r.v = d.v) }
      \* a child taken out of the collection of its parent (table ref): the
      \* orphan is deleted, or its foreign key is set to NULL
      [] kind = "remove" ->
            IF "delete-orphan" \in Cascade(script, ref)
            THEN { r \in rows : ~(r.t = tab /\ r.v = d.v) }
            ELSE { IF r.t = tab /\ r.v = d.v THEN [r EXCEPT !.n = 0] ELSE r : r \in rows }
      \* Session.delete(parent): the children (table ref) are deleted with
      \* it, or their foreign key is set to NULL
      [] kind = "delete" ->
            LET ks == {r.k : r \in {x \in rows : x.t = tab /\ x.v = d.v}}
                kept == { r \in rows : ~(r.t = tab /\ r.v = d.v) }
            IN  IF "delete" \in Cascade(script, tab)
                THEN { r \in kept : ~(r.t = ref /\ r.n \in ks) }
                ELSE { IF r.t = ref /\ r.n \in ks THEN [r EXCEPT !.n = 0] ELSE r :
                        r \in kept }
      [] OTHER -> rows

RECURSIVE ApplyAll(_, _, _, _, _)
ApplyAll(rows, kind, tab, ref, data) ==
    IF data = <<>> THEN rows
    ELSE ApplyAll(ApplyOne(rows, kind, tab, ref, Head(data)), kind, tab, ref, Tail(data))

\* the unit of work: what add(), attribute assignment and delete() leave
\* for the next flush; obj is the Python object a Session.add() was given
\* (the position of the add in the program), 0 for any other change
Item(kind, tab, ref, data, ptype, obj) ==
    [kind |-> kind, tab |-> tab, ref |-> ref, data |-> data, ptype |-> ptype,
     obj |-> obj]

\* the identity map of a Session: one entry [tab, k, obj] for an object of
\* the class mapped to tab with primary key k; new: inserted in the
\* transaction that is still open
Identity(tab, k, obj, new) == [tab |-> tab, k |-> k, obj |-> obj, new |-> new]

\* a loader that makes an object for every row it is given
LoadFresh(imap, tab, k, fresh) == imap \cup {Identity(tab, k, fresh, FALSE)}

\* a row of a mapped class comes back from a query: the object the session
\* has under that key is used, a new object is made only when it has none
Load(imap, tab, k, fresh) ==
    IF \E e \in imap : e.tab = tab /\ e.k = k THEN imap
    ELSE imap \cup {Identity(tab, k, fresh, FALSE)}

\* the identity map after the flush: an inserted object enters it under
\* the key the database gave its row
RECURSIVE Flushed(_, _, _)
Flushed(rows, pending, imap) ==
    IF pending = <<>> THEN imap
    ELSE LET i == Head(pending)
             key == IF i.data[1].k = 0 THEN NextKey(rows, i.tab) ELSE i.data[1].k
         IN  Flushed(ApplyAll(rows, i.kind, i.tab, i.ref, i.data), Tail(pending),
                     IF i.kind = "ins" /\ i.obj # 0
                     THEN imap \cup {Identity(i.tab, key, i.obj, TRUE)}
                     ELSE imap)

RECURSIVE FlushRows(_, _)
FlushRows(rows, pending) ==
    IF pending = <<>> THEN rows
    ELSE LET i == Head(pending)
         IN  FlushRows(ApplyAll(rows, i.kind, i.tab, i.ref, i.data), Tail(pending))

PendingTables(pending) ==
    UNION { {pending[i].tab, pending[i].ref} : i \in 1..Len(pending) } \ {""}

\* a uuid.UUID object bound to a String column: the sqlite driver binds
\* int, float, str, bytes and None only, and the String type passes the
\* value through as it is
BindError(pending) ==
    IF \E i \in 1..Len(pending) : pending[i].ptype = "uuid"
    THEN "DBAPIError" ELSE ""

FlushOutcome(sc, db) ==
    IF sc.pending = <<>>
    THEN [err |-> "", db |-> db, wrote |-> FALSE, imap |-> sc.imap]
    ELSE IF ~(PendingTables(sc.pending) \subseteq db.tables)
    THEN [err |-> "OperationalError", db |-> db, wrote |-> FALSE, imap |-> sc.imap]
    ELSE IF BindError(sc.pending) # ""
    THEN [err |-> BindError(sc.pending), db |-> db, wrote |-> FALSE,
          imap |-> sc.imap]
    ELSE [err |-> "", db |-> [db EXCEPT !.rows = FlushRows(db.rows, sc.pending)],
          wrote |-> TRUE, imap |-> Flushed(db.rows, sc.pending, sc.imap)]

\* no such table / table already exists
ExecError(st, db) ==
    IF st.kind = "ddl"
    THEN IF st.tab \in db.tables THEN "OperationalError" ELSE ""
    ELSE IF st.tabs \subseteq db.tables THEN "" ELSE "OperationalError"

ExecEffect(st, db) ==
    IF st.kind = "ddl" THEN [db EXCEPT !.tables = @ \cup {st.tab}]
    ELSE [db EXCEPT !.rows = ApplyAll(@, st.kind, st.tab, st.ref, st.data)]

LikeEd == {"ed", "Edwardo", "fred"}

Match(flt, r, rows) ==
    CASE flt = "name_like_ed" -> r.t = "users" /\ r.v \in LikeEd
      [] flt = "name_like_ed_and_id_99" -> r.t = "users" /\ r.v \in LikeEd /\ r.k = 99
      [] flt = "name_ed" -> r.t = "users" /\ r.v = "ed"
      [] flt = "id_lt_224_and_name_fred" -> r.t = "users" /\ r.k < 224 /\ r.v = "fred"
      [] flt = "name_jack" -> r.t = "users" /\ r.v = "jack"
      [] flt = "name_wendy" -> r.t = "users" /\ r.v = "wendy"
      [] flt = "name_sandy" -> r.t = "user_account" /\ r.v = "sandy"
      [] flt = "name_patrick" -> r.t = "user_account" /\ r.v = "patrick"
      [] flt = "id_1" -> r.t = "user_account" /\ r.k = 1
      [] flt = "id_2" -> r.t = "user_account" /\ r.k = 2
      [] flt = "id_3" -> r.t = "user_account" /\ r.k = 3
      [] flt = "email_sandy_sqlalchemy" ->
            /\ r.t = "address" /\ r.v = "sandy@sqlalchemy.org"
            /\ r.n = Lookup(rows, "user_account", "sandy")
      [] OTHER -> FALSE

Matching(flt, rows) == {r \in rows : Match(flt, r, rows)}

\* Query.one() / Result.scalar_one(); Query.scalar() returns None for no
\* row; Query.first() and Session.get() raise for no number of rows
OneError(kind, n) ==
    IF kind \in {"first", "get"} THEN ""
    ELSE IF n > 1 THEN "MultipleResultsFound"
    ELSE IF n = 0 /\ kind \in {"one", "scalar_one"} THEN "NoResultFound"
    ELSE ""

----------------------------------------------------------------------------
(* Scopes: connections and sessions.                                       *)

\* imap: the identity map of a Session; loads: the objects its queries for
\* a mapped class have returned, as [line, obj]
FreshScope ==
    [st |-> "none", kind |-> "", txn |-> FALSE, wrote |-> FALSE,
     rolled |-> FALSE, pending |-> <<>>, imap |-> {}, loads |-> {}]

IsWith(kind) == kind \in {"connect", "begin", "with_session"}

IsSession(kind) == kind \in {"with_session", "session"}

IsConnection(kind) == kind \in {"connect", "begin"}

ScopeIds(s) == {Program(s)[i].scope : i \in 1..Len(Program(s))} \ {0}

\* Connection.close() / Session.close(): the transaction, if any, is rolled
\* back and the scope is released
ReleaseLeak(sc) == sc

Release(sc) ==
    [sc EXCEPT !.st = "closed", !.txn = FALSE, !.wrote = FALSE,
               !.rolled = FALSE, !.pending = <<>>, !.imap = {}]

\* a rollback that leaves the unit of work and the identity map alone
RolledBackKeeping(sc) ==
    [sc EXCEPT !.txn = FALSE, !.rolled = @ \/ sc.wrote, !.wrote = FALSE]

\* Session.rollback(): the pending changes are dropped and the objects
\* added in the transaction leave the session
RolledBack(sc) ==
    [sc EXCEPT !.txn = FALSE, !.rolled = @ \/ sc.wrote, !.wrote = FALSE,
               !.pending = <<>>, !.imap = {e \in @ : ~e.new}]

\* Session.commit(): the flushed objects are persistent, the deleted ones
\* have left the session
Persistent(imap, db) ==
    { [e EXCEPT !.new = FALSE] :
        e \in {x \in imap : \E r \in db.rows : r.t = x.tab /\ r.k = x.k} }

\* what a release throws away: writes executed and not committed
Discarded(sc, s, line) ==
    IF sc.wrote \/ sc.rolled
    THEN {[scope |-> s, line |-> line, script |-> script]} ELSE {}

Here == program[pc]

At(op) ==
    /\ status = "running"
    /\ pc <= Len(program)
    /\ Here.op = op

\* an exception propagates: a with-block it leaves releases its scope
Raises(e, s) ==
    /\ status' = "raised"
    /\ err' = e
    /\ IF s \in DOMAIN scopes /\ scopes[s].st = "open" /\ IsWith(scopes[s].kind)
       THEN /\ scopes' = [scopes EXCEPT ![s] = Release(@)]
            /\ lost' = lost \cup Discarded(scopes[s], s, Here.line)
            /\ cur' = committed
       ELSE UNCHANGED <<scopes, lost, cur>>
    /\ UNCHANGED <<script, program, pc, committed, caught, build, objects>>

\* try: ... except Exception as e: print(str(e))
Caught(e) ==
    /\ caught' = Append(caught, [line |-> Here.line, err |-> e])
    /\ pc' = pc + 1
    /\ UNCHANGED <<script, program, status, err, scopes, cur, committed, lost,
                   build, objects>>

\* the outcome of a statement through scope s: exception e, or the database
\* db and the scope sc2
Step(s, e, db, sc2) ==
    IF e # "" THEN IF Here.try THEN Caught(e) ELSE Raises(e, s)
    ELSE /\ pc' = pc + 1
         /\ cur' = db
         /\ scopes' = [scopes EXCEPT ![s] = sc2]
         /\ UNCHANGED <<script, program, status, err, committed, lost, caught,
                        build, objects>>

\* a closed Connection cannot execute; a closed Session begins again
ClosedError(sc) ==
    IF sc.st # "open" /\ ~IsSession(sc.kind) THEN "ResourceClosedError" ELSE ""

FirstError(es) ==
    IF \E i \in 1..Len(es) : es[i] # ""
    THEN es[Min({i \in 1..Len(es) : es[i] # ""})] ELSE ""

----------------------------------------------------------------------------
(* The library calls.                                                      *)

\* MetaData.create_all(engine): CREATE TABLE for the tables that are missing,
\* in a transaction of its own
create_all ==
    /\ At("create_all")
    /\ cur' = [cur EXCEPT !.tables = @ \cup Here.tabs]
    /\ committed' = [committed EXCEPT !.tables = @ \cup Here.tabs]
    /\ pc' = pc + 1
    /\ UNCHANGED <<script, program, status, err, scopes, lost, caught, build, objects>>

\* the first instantiation of a mapped class configures the mappers
init ==
    /\ At("init")
    /\ IF ConfigureError(script) # "" THEN Raises(ConfigureError(script), 0)
       ELSE /\ pc' = pc + 1
            /\ UNCHANGED <<script, program, status, err, scopes, cur, committed, lost,
                           caught, build, objects>>

\* engine.connect(), engine.begin(), Session(engine)
open ==
    /\ At("open")
    /\ scopes' = [scopes EXCEPT ![Here.scope] =
                    [FreshScope EXCEPT !.st = "open", !.kind = Here.kind,
                                       !.txn = (Here.kind = "begin")]]
    /\ pc' = pc + 1
    /\ UNCHANGED <<script, program, status, err, cur, committed, lost, caught,
                   build, objects>>

\* Connection.execute / Session.execute / Query.all(): a Session flushes
\* first; the scope begins a transaction if it has none
execute ==
    /\ At("exec")
    /\ LET s == Here.scope
           sc == scopes[s]
       IN  LET f == FlushOutcome(sc, cur)
                 e == FirstError(<<ClosedError(sc), f.err, ExecError(Here, f.db)>>)
                 sc2 == [sc EXCEPT !.st = "open", !.txn = TRUE,
                                   !.wrote = @ \/ f.wrote \/ Here.kind # "select",
                                   !.pending = <<>>, !.imap = f.imap]
             IN  Step(s, e, ExecEffect(Here, f.db), sc2)

\* Session.add / attribute assignment / Session.delete: nothing is sent yet
add ==
    /\ At("add")
    /\ scopes' = [scopes EXCEPT ![Here.scope] =
                    [@ EXCEPT !.st = "open",
                              !.pending = Append(@, Item(Here.kind, Here.tab, Here.ref,
                                                         Here.data, Here.flt,
                                                         IF Here.kind = "ins"
                                                         THEN pc ELSE 0))]]
    /\ pc' = pc + 1
    /\ UNCHANGED <<script, program, status, err, cur, committed, lost, caught,
                   build, objects>>

\* Session.flush()
flush ==
    /\ At("flush")
    /\ LET s == Here.scope
           sc == scopes[s]
       IN  LET f == FlushOutcome(sc, cur)
                 sc2 == [sc EXCEPT !.st = "open", !.txn = @ \/ sc.pending # <<>>,
                                   !.wrote = @ \/ f.wrote, !.pending = <<>>,
                                   !.imap = f.imap]
             IN  Step(s, f.err, f.db, sc2)

\* Connection.commit() / Session.commit(): a Session flushes first
commit ==
    /\ At("commit")
    /\ LET s == Here.scope
           sc == scopes[s]
       IN  LET f == FlushOutcome(sc, cur)
                 e == FirstError(<<ClosedError(sc), f.err>>)
             IN  IF e # "" THEN IF Here.try THEN Caught(e) ELSE Raises(e, s)
                 ELSE /\ cur' = f.db
                      /\ committed' = f.db
                      /\ scopes' = [scopes EXCEPT ![s] =
                                      [sc EXCEPT !.txn = FALSE, !.wrote = FALSE,
                                                 !.pending = <<>>,
                                                 !.imap = Persistent(f.imap, f.db)]]
                      /\ pc' = pc + 1
                      /\ UNCHANGED <<script, program, status, err, lost,
                                     caught, build, objects>>

\* Session.rollback(): flushed and pending changes are dropped
rollback ==
    /\ At("rollback")
    /\ cur' = committed
    /\ scopes' = [scopes EXCEPT ![Here.scope] = RolledBack(@)]
    /\ pc' = pc + 1
    /\ UNCHANGED <<script, program, status, err, committed, lost, caught, build, objects>>

\* the end of a with-block, or Session.close(): engine.begin() commits on a
\* normal exit, every other scope rolls back what it did not commit
close ==
    /\ status = "running"
    /\ pc <= Len(program)
    /\ Here.op \in {"exit", "close"}
    /\ LET s == Here.scope
           sc == scopes[s]
       IN  IF sc.kind = "begin" /\ sc.st = "open"
           THEN /\ committed' = cur
                /\ scopes' = [scopes EXCEPT ![s] = Release(sc)]
                /\ UNCHANGED <<cur, lost>>
           ELSE /\ cur' = IF sc.txn THEN committed ELSE cur
                /\ lost' = lost \cup Discarded(sc, s, Here.line)
                /\ scopes' = [scopes EXCEPT ![s] = Release(sc)]
                /\ UNCHANGED committed
    /\ pc' = pc + 1
    /\ UNCHANGED <<script, program, status, err, caught, build, objects>>

\* the objects the identity map holds for the rows found
Held(imap, found) ==
    { e \in imap : \E r \in found : r.t = e.tab /\ r.k = e.k }

\* Query.one(), Result.scalar_one(), Query.scalar(), Query.first(),
\* Session.get(): get() looks in the identity map first and sends a SELECT
\* only when the object is not there; a query for a mapped class returns
\* its first row as an object, through the identity map
one ==
    /\ At("one")
    /\ LET s == Here.scope
           sc == scopes[s]
           hit == IF Here.kind = "get"
                  THEN Held(sc.imap, Matching(Here.flt, cur.rows)) ELSE {}
       IN  IF hit # {}
           THEN Step(s, "", cur,
                     [sc EXCEPT !.loads = @ \cup
                        {[line |-> Here.line, obj |-> x.obj] : x \in hit}])
           ELSE LET f == FlushOutcome(sc, cur)
                    found == Matching(Here.flt, f.db.rows)
                    e == FirstError(<<ClosedError(sc), f.err, ExecError(Here, f.db),
                                      OneError(Here.kind, Cardinality(found))>>)
                    row == IF found = {} \/ Here.kind \in {"scalar", "scalar_one"}
                           THEN {}
                           ELSE {r \in found : r.k = Min({x.k : x \in found})}
                    m == IF row = {} THEN f.imap
                         ELSE LET r == CHOOSE x \in row : TRUE
                              IN  Load(f.imap, r.t, r.k, 1000 + pc)
                    sc2 == [sc EXCEPT !.st = "open", !.txn = TRUE,
                                      !.wrote = @ \/ f.wrote, !.pending = <<>>,
                                      !.imap = m,
                                      !.loads = @ \cup
                                         {[line |-> Here.line, obj |-> x.obj] :
                                            x \in Held(m, row)}]
                IN  Step(s, e, f.db, sc2)

\* an attribute or a collection of a mapped object: a subscript outside the
\* collection raises, lazy="raise_on_sql" raises, an unloaded attribute is
\* loaded through the session
AttrError(st) ==
    IF st.kind \in {"getitem", "delitem"} /\ st.data[1].k >= st.data[1].n
    THEN "IndexError"
    ELSE IF st.kind = "raise_on_sql" THEN "InvalidRequestError"
    ELSE ""

attr ==
    /\ At("attr")
    /\ LET s == Here.scope
           sc == scopes[s]
       IN  IF AttrError(Here) # "" \/ Here.tabs = {}
           THEN Step(s, AttrError(Here), cur, sc)
           ELSE LET f == FlushOutcome(sc, cur)
                      e == FirstError(<<f.err, ExecError(Here, f.db)>>)
                      sc2 == [sc EXCEPT !.st = "open", !.txn = TRUE,
                                        !.wrote = @ \/ f.wrote, !.pending = <<>>,
                                        !.imap = f.imap]
                  IN  Step(s, e, f.db, sc2)

\* Result.all() on the result of a connection that has been released: the
\* cursor may still deliver its rows, or the result is closed
fetch ==
    /\ At("fetch")
    /\ LET s == Here.scope
       IN  Step(s, IF scopes[s].st = "open" \/ build.fetch_after_release
                   THEN "" ELSE "ResourceClosedError", cur, scopes[s])

\* the relationship pair is kept in sync: both sides name each other with
\* back_populates
Unsynced(s, side, other) == FALSE

Synced(s, side, other) ==
    \E r \in Relationships(s) : r.attr = side /\ r.back = other

\* objects.addresses: the collections, as a sequence of <<user, address>> in
\* the order of their appends; objects.user: the <<address, user>> pairs
\* of the addresses whose user attribute is set
RECURSIVE WithoutPair(_, _, _)
WithoutPair(seq, u, a) ==
    IF seq = <<>> THEN <<>>
    ELSE IF Head(seq) = <<u, a>> THEN WithoutPair(Tail(seq), u, a)
    ELSE <<Head(seq)>> \o WithoutPair(Tail(seq), u, a)

\* user.addresses.append(address) and user.addresses.remove(address): the
\* event sets or clears address.user; address.user = user: an assignment
\* of the value the attribute has already is no change, any other one
\* takes the address out of the collection of its old user and appends it
\* to that of the new one
relate ==
    /\ At("relate")
    /\ LET a == Here.data[1].v
           u == Here.data[1].w
           old == {x \in objects.user : x[1] = a}
           back == /\ Synced(script, "addresses", "user")
                   /\ Synced(script, "user", "addresses")
       IN  objects' =
             CASE Here.kind = "append" ->
                    [addresses |-> Append(objects.addresses, <<u, a>>),
                     user |-> IF back THEN (objects.user \ old) \cup {<<a, u>>}
                              ELSE objects.user]
               [] Here.kind = "remove" ->
                    [addresses |-> WithoutPair(objects.addresses, u, a),
                     user |-> IF back THEN objects.user \ {<<a, u>>}
                              ELSE objects.user]
               [] Here.kind = "set" /\ <<a, u>> \in objects.user -> objects
               [] OTHER ->
                    [addresses |->
                        IF ~back THEN objects.addresses
                        ELSE IF old = {} THEN Append(objects.addresses, <<u, a>>)
                        ELSE Append(WithoutPair(objects.addresses,
                                                (CHOOSE x \in old : TRUE)[2], a),
                                    <<u, a>>),
                     user |-> (objects.user \ old) \cup {<<a, u>>}]
    /\ pc' = pc + 1
    /\ UNCHANGED <<script, program, status, err, scopes, cur, committed, lost,
                   caught, build>>

\* the script has run to its end
finish ==
    /\ status = "running"
    /\ pc > Len(program)
    /\ status' = "done"
    /\ UNCHANGED <<script, program, pc, err, scopes, cur, committed, lost,
                   caught, build, objects>>

ScriptsInit ==
    /\ script \in Scripts
    /\ program = Program(script)
    /\ pc = 1
    /\ status = "running"
    /\ err = ""
    /\ scopes = [s \in ScopeIds(script) |-> FreshScope]
    /\ cur = EmptyDb
    /\ committed = EmptyDb
    /\ lost = {}
    /\ caught = <<>>
    /\ build \in [fetch_after_release : BOOLEAN]
    /\ objects = [addresses |-> <<>>, user |-> {}]

\* no script is run: the state of part 1 while another part is explored
ScriptsIdle ==
    /\ script = ""
    /\ program = <<>>
    /\ pc = 1
    /\ status = "idle"
    /\ err = ""
    /\ scopes = << >>
    /\ cur = EmptyDb
    /\ committed = EmptyDb
    /\ lost = {}
    /\ caught = <<>>
    /\ build = [fetch_after_release |-> FALSE]
    /\ objects = [addresses |-> <<>>, user |-> {}]

----------------------------------------------------------------------------
(* Claims about the scripts' scopes (specification Spec).                  *)

Ended == status \in {"done", "raised"}

\* C1: in every script each connection or session scope that executes a
\* data-modifying statement commits it before the scope is released; no
\* write is thrown away by a release without commit.
C1_NoWriteDiscardedByRelease == lost = {}

\* C2: every session or connection a script opens is closed before the
\* script ends, and none still holds an open transaction then.
C2_EveryScopeClosedAtEnd ==
    status = "done" =>
        \A s \in DOMAIN scopes : scopes[s].st # "open" /\ ~scopes[s].txn

\* C2, amended: every connection opened with engine.connect() or
\* engine.begin() is released, with no transaction left, when the script
\* ends, whether it ends normally or by an exception.
C2_EveryConnectionClosedAtEnd ==
    Ended =>
        \A s \in DOMAIN scopes :
            IsConnection(scopes[s].kind) => scopes[s].st = "closed" /\ ~scopes[s].txn

\* a script has ended after it opened, wrote through and left a connection
C2_Witness ==
    /\ status = "done"
    /\ script = "update_delete.py"
    /\ \A s \in DOMAIN scopes : scopes[s].st = "closed"
    /\ committed.rows # {}

\* C3: every NoResultFound / MultipleResultsFound of a one() or
\* scalar_one() call in orm-api.py is caught by a try/except, so the script
\* never terminates on such a condition.
C3_OneNeverEndsOrmApi ==
    script = "orm-api.py" =>
        ~(status = "raised" /\ err \in {"NoResultFound", "MultipleResultsFound"})

\* the with-blocks the script has left, as <<scope, line of the exit>>
Exited ==
    { <<program[i].scope, program[i].line>> :
        i \in {j \in 1..Len(program) :
                    j < pc /\ program[j].op = "exit"} }

\* C14: no statement is executed through a connection or session after the
\* with-block that scopes it has exited; in every script each execute
\* happens between the acquire and the release of its own scope, so a scope
\* whose with-block has been left is never in use again.
C14_NoExecuteAfterExit ==
    \A x \in Exited : scopes[x[1]].st # "open"

\* the rows of table_name as <<x, y>>
table_name(db) == { <<r.k, r.n>> : r \in {x \in db.rows : x.t = "table_name"} }

\* the parameter rows of the INSERTs of scopes whose with-block has been left
InsertedBefore ==
    UNION { {program[i].data[d] : d \in DOMAIN program[i].data} :
            i \in {j \in 1..Len(program) :
                    /\ j < pc
                    /\ program[j].kind = "insert"
                    /\ \E x \in Exited : x[1] = program[j].scope} }

\* C15: after transaction.py has run to completion table_name holds exactly
\* the six rows (1,1), (2,4), (6,8), (9,11), (11,12), (13,15): every insert
\* of a commit-as-you-go or begin-once scope is visible to all later scopes
\* (its x is in the table from the exit of its scope on, with the y it was
\* inserted with unless x is 9 or 13), and the Session UPDATE changes y
\* only for the rows with x = 9 and x = 13.
C15_TransactionPyRows ==
    script = "transaction.py" =>
        /\ status # "raised"
        /\ \A d \in InsertedBefore :
                \E r \in table_name(cur) :
                    r[1] = d.k /\ (d.k \notin {9, 13} => r[2] = d.n)
        /\ status = "done" =>
                table_name(committed) =
                    { <<1, 1>>, <<2, 4>>, <<6, 8>>, <<9, 11>>, <<11, 12>>, <<13, 15>> }

\* transaction.py has ended with the row the Session updated last
C15_Witness ==
    /\ script = "transaction.py"
    /\ status = "done"
    /\ <<13, 15>> \in table_name(committed)

\* the tables named by the SQL the next statement of the script sends: its
\* own, and those of the changes a Session flushes first
Referenced ==
    IF status = "running" /\ pc <= Len(program)
       /\ Here.op \in {"exec", "one", "flush", "commit", "attr"}
       /\ Here.kind # "ddl"
    THEN Here.tabs \cup PendingTables(scopes[Here.scope].pending)
    ELSE {}

\* C16: in every script a table is created (create_all or CREATE TABLE)
\* before the first INSERT, UPDATE, DELETE or SELECT that references it is
\* sent to the database; this covers the first session.flush() of
\* orm-data-manipulation.py, which inserts into user_account.
C16_TableCreatedBeforeUse == Referenced \subseteq cur.tables

\* the script has run the statement with this op of this line
Past(op, line) ==
    \E i \in 1..Len(program) :
        i < pc /\ program[i].op = op /\ program[i].line = line

\* the address rows whose user_id identifies no row of user_account
Orphans(db) ==
    { r \in db.rows :
        /\ r.t = "address"
        /\ ~\E u \in db.rows : u.t = "user_account" /\ u.k = r.n }

\* C17: in orm-quickstart.py (User.addresses with cascade "all,
\* delete-orphan") no address row exists after any flush or commit whose
\* user_id does not identify an existing user_account row: the flush of
\* line 79 deletes the row of the address removed from sandy.addresses, and
\* the commit of line 82 deletes patrick together with all his address rows.
C17_NoOrphanAddress ==
    script = "orm-quickstart.py" =>
        /\ Orphans(cur) = {} /\ Orphans(committed) = {}
        /\ Past("flush", 79) =>
                ~\E r \in cur.rows : r.v = "sandy_cheeks@sqlalchemy.org"
        /\ Past("commit", 82) =>
                /\ ~\E r \in committed.rows : r.v = "patrick"
                /\ ~\E r \in committed.rows : r.v = "patrickstar@sqlalchemy.org"

\* the commit of line 82 has taken place and the rows of the other two
\* users and their remaining addresses are there
C17_Witness ==
    /\ script = "orm-quickstart.py"
    /\ Past("commit", 82)
    /\ \E r \in committed.rows : r.t = "address" /\ r.v = "sandy@squirrelpower.org"
    /\ Cardinality({r \in committed.rows : r.t = "user_account"}) = 2

\* the object given to the Session.add() of this line
Added(line) ==
    CHOOSE i \in 1..Len(program) :
        program[i].op = "add" /\ program[i].line = line

\* the object is in the session: pending, or in the identity map
InSession(sc, obj) ==
    \/ \E e \in sc.imap : e.obj = obj
    \/ \E i \in 1..Len(sc.pending) : sc.pending[i].obj = obj

\* C18: in orm-api.py session.rollback() (line 80) discards exactly the
\* changes made since the commit of line 70: the row of ed_user, from which
\* the expired ed_user is loaded again on its next access (line 81), has
\* name 'ed' again and not 'Edwardo', it keeps the nickname 'eddie' that was
\* committed, and fake_user is neither in the session nor in the users
\* table.
C18_RollbackDiscardsSinceCommit ==
    (script = "orm-api.py" /\ Past("rollback", 80)) =>
        /\ \E r \in cur.rows :
                r.t = "users" /\ r.k = 1 /\ r.v = "ed" /\ r.w = "eddie"
        /\ ~\E r \in cur.rows : r.t = "users" /\ r.v \in {"Edwardo", "fakeuser"}
        /\ ~InSession(scopes[1], Added(76))
        /\ InSession(scopes[1], Added(60))

\* the rollback of line 80 has thrown away flushed changes and ed_user has
\* been read again
C18_Witness ==
    /\ script = "orm-api.py"
    /\ Past("attr", 81)
    /\ scopes[1].rolled
    /\ \E r \in cur.rows : r.t = "users" /\ r.v = "ed"

C20_AutoflushBeforeSelect ==
    script = "orm-data-manipulation.py" =>
        /\ Ended => Past("one", 63)
        /\ (Past("add", 61) /\ ~Past("one", 63)) =>
                \E i \in 1..Len(scopes[1].pending) :
                    scopes[1].pending[i].data[1].v = "sandy"
        /\ (Past("one", 63) /\ ~Past("exec", 67)) =>
                /\ \E r \in cur.rows :
                        r.t = "user_account" /\ r.k = 1 /\ r.w = "Sandy Squirrel"
                /\ scopes[1].pending = <<>>

\* how often the address is in user.addresses
InAddresses(u, a) ==
    Cardinality({i \in 1..Len(objects.addresses) : objects.addresses[i] = <<u, a>>})

\* C12: in orm-related-objects.py the two sides of User.addresses /
\* Address.user stay in sync in memory: the script gets to lines 107-119,
\* after u1.addresses.append(a1) (line 111) a1.user is u1, after
\* Address(user=u1) (line 115) the new address a2 is in u1.addresses, and
\* assigning a2.user = u1 again (line 119) leaves a2 in u1.addresses
\* exactly once.
C12_BothSidesInSync ==
    script = "orm-related-objects.py" =>
        /\ Ended => Past("relate", 119)
        /\ Past("relate", 111) =>
                <<"a1", "u1">> \in objects.user /\ InAddresses("u1", "a1") = 1
        /\ Past("relate", 115) =>
                <<"a2", "u1">> \in objects.user /\ InAddresses("u1", "a2") = 1

\* C21: in orm-data-manipulation.py the script gets to session.rollback()
\* (line 85), and from then until session.close() (line 93) the effects of
\* session.delete(patrick), of the bulk DELETE of squidward and of both
\* updates of sandy are undone: the row of sandy has fullname 'Sandy
\* Cheeks', the rows of patrick and squidward are there, patrick is in the
\* session, and the query for name 'patrick' (line 91) finds exactly one
\* row and returns the identical object patrick.
C21_RollbackUndoesDeletesAndUpdates ==
    script = "orm-data-manipulation.py" =>
        /\ Ended => Past("one", 91)
        /\ (Past("rollback", 85) /\ ~Past("close", 93)) =>
                /\ \E r \in cur.rows :
                        r.t = "user_account" /\ r.k = 1 /\ r.w = "Sandy Cheeks"
                /\ Cardinality({r \in cur.rows :
                        r.t = "user_account" /\ r.v = "patrick"}) = 1
                /\ \E r \in cur.rows : r.t = "user_account" /\ r.v = "squidward"
                /\ InSession(scopes[1], Added(47))
        /\ \A x \in scopes[1].loads : x.line = 91 => x.obj = Added(47)

----------------------------------------------------------------------------
(* Part 2: the validators of simple-validators.py (specification           *)
(* SpecValidators).  A client builds an EmailAddress or an Address with an *)
(* email, appends Address objects to the addresses of a User, or calls a   *)
(* validator function itself.  Building an instance configures the mappers *)
(* of the module first; the @validates function then runs before a value   *)
(* is stored, and its return value is what is stored.                      *)
(*                                                                         *)
(* A Python value is a record: a str (s is its characters), None, or an    *)
(* object with an email attribute (e says whether that attribute holds a   *)
(* str, whose characters are s, or None).                                  *)

MaxLen == 3
MaxAppends == 2

Chars == {"a", "@"}

Strs(n) == UNION { [1..k -> Chars] : k \in 0..n }

StrV(s) == [tag |-> "str", s |-> s, e |-> "-"]

NoneV == [tag |-> "none", s |-> <<>>, e |-> "-"]

ObjV(e, s) == [tag |-> "obj", s |-> s, e |-> e]

StrValues == { StrV(s) : s \in Strs(MaxLen) }

\* Address objects: loaded with a stored email, or new with no email yet
AddressObjects == { ObjV("str", s) : s \in Strs(MaxLen) } \cup { ObjV("none", <<>>) }

Values == StrValues \cup {NoneV} \cup AddressObjects

\* c in s, for a str s
Contains(s, c) == \E i \in 1..Len(s) : s[i] = c

\* what a validator call gives: the value to store, or the exception
Returned(v) == [exc |-> "", ret |-> v]

Raised(e) == [exc |-> e, ret |-> NoneV]

\* the body the three validators share:
\*     if "@" not in address.email: raise ValueError(...)
\*     return address
\* address.email is an attribute lookup on the value that was passed in
SimplifiedEmailValidation(address) ==
    IF address.tag # "obj" THEN Raised("AttributeError")
    ELSE IF address.e # "str" THEN Raised("TypeError")
    ELSE IF ~Contains(address.s, "@") THEN Raised("ValueError")
    ELSE Returned(address)

\* EmailAddress.validate_email(self, key, address), @validates("email")
EmailAddress_validate_email(address) == SimplifiedEmailValidation(address)

\* User.validate_addresses(self, key, address), @validates("addresses")
User_validate_addresses(address) == SimplifiedEmailValidation(address)

\* Address.validate_email(self, key, address), @validates("email")
Address_validate_email(address) == SimplifiedEmailValidation(address)

Validators ==
    {"EmailAddress.validate_email", "User.validate_addresses", "Address.validate_email"}

Validate(fn, value) ==
    CASE fn = "EmailAddress.validate_email" -> EmailAddress_validate_email(value)
      [] fn = "User.validate_addresses" -> User_validate_addresses(value)
      [] fn = "Address.validate_email" -> Address_validate_email(value)

Classes == {"EmailAddress", "Address"}

\* cls(...): the first instantiation of a mapped class configures every
\* mapper of the module; once that has failed, every later one fails too
Instantiate ==
    IF mappers = "unconfigured" THEN ConfigureError("simple-validators.py")
    ELSE IF mappers = "failed" THEN "InvalidRequestError"
    ELSE ""

Configured(e) ==
    IF mappers # "unconfigured" THEN mappers
    ELSE IF e = "" THEN "configured" ELSE "failed"

NoCall == [op |-> "none", fn |-> "", arg |-> NoneV, exc |-> "", ret |-> NoneV]

Call(op, fn, arg, exc, ret) ==
    [op |-> op, fn |-> fn, arg |-> arg, exc |-> exc, ret |-> ret]

\* obj = cls(); obj.email = value
set_email ==
    \E cls \in Classes, value \in Values :
        LET fn == IF cls = "EmailAddress" THEN "EmailAddress.validate_email"
                  ELSE "Address.validate_email"
            e == Instantiate
            r == IF e # "" THEN Raised(e) ELSE Validate(fn, value)
        IN  /\ mappers' = Configured(e)
            /\ call' = Call("set", fn, value, r.exc, r.ret)
            /\ email' = IF r.exc = "" THEN [email EXCEPT ![cls] = r.ret] ELSE email
            /\ UNCHANGED addresses

\* user = User(); user.addresses.append(address)
append ==
    \E address \in AddressObjects :
        LET e == Instantiate
            r == IF e # "" THEN Raised(e)
                 ELSE Validate("User.validate_addresses", address)
        IN  /\ r.exc = "" => Len(addresses) < MaxAppends
            /\ mappers' = Configured(e)
            /\ call' = Call("append", "User.validate_addresses", address, r.exc, r.ret)
            /\ addresses' = IF r.exc = "" THEN Append(addresses, r.ret) ELSE addresses
            /\ UNCHANGED email

\* the validator function called as a plain function, with no instance
validate ==
    \E fn \in Validators, value \in Values :
        LET r == Validate(fn, value)
        IN  /\ call' = Call("validate", fn, value, r.exc, r.ret)
            /\ UNCHANGED <<mappers, email, addresses>>

ValidatorsInit ==
    /\ mappers = "unconfigured"
    /\ email = [c \in Classes |-> NoneV]
    /\ addresses = <<>>
    /\ call = NoCall

ValidatorsIdle ==
    /\ mappers = "idle"
    /\ email = [c \in Classes |-> NoneV]
    /\ addresses = <<>>
    /\ call = NoCall

HasAt(v) == v.tag = "str" /\ Contains(v.s, "@")

\* C4: assigning to the email of an EmailAddress or an Address a str
\* without '@' raises ValueError and leaves the attribute as it was;
\* assigning a str with '@' raises nothing and stores exactly that str.
C4_EmailAssignmentValidated ==
    (call.op = "set" /\ call.arg.tag = "str") =>
        IF HasAt(call.arg)
        THEN call.exc = "" /\ call.ret = call.arg
        ELSE call.exc = "ValueError"

\* C5: appending to User.addresses an Address whose email has no '@' raises
\* ValueError; one whose email has '@' is appended as it is; so every
\* member of the collection has '@' in its email.
C5_AppendValidated ==
    /\ \A i \in 1..Len(addresses) : Contains(addresses[i].s, "@")
    /\ (call.op = "append" /\ call.arg.e = "str") =>
            IF Contains(call.arg.s, "@")
            THEN /\ call.exc = ""
                 /\ Len(addresses) > 0
                 /\ addresses[Len(addresses)] = call.arg
            ELSE call.exc = "ValueError"

----------------------------------------------------------------------------
(* Part 3: the hybrid property of EmailAddressPropertyExpression in        *)
(* descriptors-and-hybrids.py (specification SpecHybrid).  A client sets   *)
(* email through the setter, sets the mapped attribute _email itself,      *)
(* reads email on the instance, or selects the class-level expression,     *)
(* which the database evaluates on the stored value.                       *)

\* "@example.com"
ExampleCom == <<"@", "e", "x", "a", "m", "p", "l", "e", ".", "c", "o", "m">>

\* s[:-n] of a Python str, n > 0
DropLast(s, n) == IF Len(s) >= n THEN SubSeq(s, 1, Len(s) - n) ELSE <<>>

\* the instance-level getter: return self._email[:-12]
email_getter(self_email) ==
    IF self_email.tag = "str" THEN Returned(StrV(DropLast(self_email.s, 12)))
    ELSE Raised("TypeError")

\* a setter that stores the value as it is given
email_setter_plain(value) == value

\* the setter: self._email = f"{email}@example.com"
email_setter(value) == StrV(value.s \o ExampleCom)

\* substr(X, Y, Z) of the database: Z characters of X from the Y-th, the
\* first character being 1; a Y of 0 counts a position before the first
\* character, a negative Y counts from the end and a negative Z takes the
\* characters before Y
substr(x, y, z) ==
    LET len == Len(x)
        n == IF z < 0 THEN -z ELSE z
        a == IF y < 0
             THEN IF y + len < 0
                  THEN [p1 |-> 0, p2 |-> Max({0, n + y + len})]
                  ELSE [p1 |-> y + len, p2 |-> n]
             ELSE IF y > 0 THEN [p1 |-> y - 1, p2 |-> n]
             ELSE IF n > 0 THEN [p1 |-> 0, p2 |-> n - 1]
             ELSE [p1 |-> 0, p2 |-> n]
        b == IF z >= 0 THEN a
             ELSE IF a.p1 - a.p2 < 0 THEN [p1 |-> 0, p2 |-> a.p1]
             ELSE [p1 |-> a.p1 - a.p2, p2 |-> a.p2]
    IN  SubSeq(x, b.p1 + 1, Min({len, b.p1 + b.p2}))

\* the class-level expression, on a stored value (NULL gives NULL):
\*     func.substr(cls._email, 0, func.length(cls._email) - 12)
email_expression(stored) ==
    IF stored.tag = "str" THEN StrV(substr(stored.s, 0, Len(stored.s) - 12))
    ELSE NoneV

\* values the mapped attribute can be given without the setter: the tails
\* of "@example.com", and short names with part of the suffix
RawEmails ==
    { StrV(SubSeq(ExampleCom, i, 12)) : i \in 1..13 } \cup
    { StrV(s \o SubSeq(ExampleCom, 1, 11)) : s \in Strs(MaxLen) }

NoGet == [how |-> "none", val |-> NoneV, exc |-> ""]

\* obj.email = value
set_hybrid_email ==
    \E value \in StrValues :
        /\ _email' = email_setter(value)
        /\ assigned' = value
        /\ got' = NoGet

\* obj._email = value, or a row stored by another writer
set_column ==
    \E value \in RawEmails :
        /\ _email' = value
        /\ assigned' = NoneV
        /\ got' = NoGet

\* obj.email
get_email ==
    LET r == email_getter(_email)
    IN  /\ got' = [how |-> "instance", val |-> r.ret, exc |-> r.exc]
        /\ UNCHANGED <<_email, assigned>>

\* select(EmailAddressPropertyExpression.email) on the stored row
select_email ==
    /\ got' = [how |-> "expression", val |-> email_expression(_email), exc |-> ""]
    /\ UNCHANGED <<_email, assigned>>

HybridInit ==
    /\ _email = NoneV
    /\ assigned = NoneV
    /\ got = NoGet

HybridIdle ==
    /\ _email = NoneV
    /\ assigned = NoneV
    /\ got = [how |-> "idle", val |-> NoneV, exc |-> ""]

\* C8: after obj.email = e the attribute _email holds e followed by the
\* twelve characters "@example.com", and reading obj.email gives e again.
C8_SetterGetterRoundTrip ==
    assigned.tag = "str" =>
        /\ _email.tag = "str"
        /\ Len(_email.s) = Len(assigned.s) + 12
        /\ SubSeq(_email.s, 1, Len(assigned.s)) = assigned.s
        /\ SubSeq(_email.s, Len(assigned.s) + 1, Len(_email.s)) = ExampleCom
        /\ got.how = "instance" => got.exc = "" /\ got.val = assigned

\* email was set to a name of two characters or more and read back
C8_Witness ==
    /\ assigned.tag = "str"
    /\ Len(assigned.s) >= 2
    /\ got.how = "instance"

\* C9: for a stored _email of twelve characters or more the class-level
\* expression gives the value without its last twelve characters, which is
\* what the instance-level getter gives.
C9_ExpressionDropsLastTwelve ==
    (got.how = "expression" /\ _email.tag = "str" /\ Len(_email.s) >= 12) =>
        /\ got.val = StrV(SubSeq(_email.s, 1, Len(_email.s) - 12))
        /\ got.val = email_getter(_email).ret

----------------------------------------------------------------------------
(* Part 4: the nested composite of nesting-composites.py (specification    *)
(* SpecComposite).  HasVertex.vertex is composite(Vertex._generate, x1,    *)
(* y1, x2, y2): reading it builds the Vertex from the four columns with    *)
(* Vertex._generate, assigning it writes vertex.__composite_values__()     *)
(* to the four columns.                                                    *)

MaxCoord == 2

Coords == 0..MaxCoord

Rows == { <<a, b, c, d>> : a \in Coords, b \in Coords, c \in Coords, d \in Coords }

\* Point.__init__
Point(x, y) == [x |-> x, y |-> y]

\* Point.__composite_values__
Point_composite_values(self) == <<self.x, self.y>>

\* Vertex.__init__
Vertex(start, end) == [start |-> start, end |-> end]

\* Vertex._generate(cls, x1, y1, x2, y2)
Vertex_generate(x1, y1, x2, y2) == Vertex(Point(x1, x2), Point(x2, y2))

\* Vertex.__composite_values__
Vertex_composite_values(self) ==
    Point_composite_values(self.start) \o Point_composite_values(self.end)

\* another writer stores a row; the HasVertex is refreshed and its
\* composite expires
store ==
    \E row \in Rows :
        /\ row # columns
        /\ columns' = row
        /\ vertex' = <<>>
        /\ origin' = "none"
        /\ values' = <<>>

\* hv.vertex, read while not loaded
load ==
    /\ vertex = <<>>
    /\ vertex' = << Vertex_generate(columns[1], columns[2], columns[3], columns[4]) >>
    /\ origin' = "row"
    /\ UNCHANGED <<columns, values>>

\* hv.vertex = Vertex(Point(a, b), Point(c, d))
assign ==
    \E row \in Rows :
        LET v == Vertex(Point(row[1], row[2]), Point(row[3], row[4]))
        IN  /\ vertex' = <<v>>
            /\ origin' = "client"
            /\ columns' = Vertex_composite_values(v)
            /\ values' = <<>>

\* hv.vertex.__composite_values__()
composite_values ==
    /\ vertex # <<>>
    /\ values = <<>>
    /\ values' = Vertex_composite_values(vertex[1])
    /\ UNCHANGED <<columns, vertex, origin>>

CompositeInit ==
    /\ columns \in Rows
    /\ vertex = <<>>
    /\ origin = "none"
    /\ values = <<>>

CompositeIdle ==
    /\ columns = <<0, 0, 0, 0>>
    /\ vertex = <<>>
    /\ origin = "idle"
    /\ values = <<>>

\* C10: the Vertex that Vertex._generate(x1, y1, x2, y2) builds has start
\* Point(x1, y1) and end Point(x2, y2), and its __composite_values__()
\* gives (x1, y1, x2, y2) back.
C10_GenerateRoundTrip ==
    origin = "row" =>
        /\ vertex[1].start = Point(columns[1], columns[2])
        /\ vertex[1].end = Point(columns[3], columns[4])
        /\ values # <<>> => values = columns

----------------------------------------------------------------------------
(* Part 5: the version counter that simple-version-counting.py maps        *)
(* (specification SpecVersion).  The file declares class User with         *)
(* __mapper_args__ = {"version_id_col": version_id} and nothing else; the  *)
(* sessions below are clients of that mapping.  What version_id_col makes  *)
(* the unit of work do is what the ORM library documents: an INSERT stores *)
(* version 1, an UPDATE sets version_id to the loaded version plus one,    *)
(* UPDATE and DELETE carry "AND version_id = <loaded version>" in their    *)
(* WHERE clause, and a statement that matches no row raises                *)
(* StaleDataError.  A flush and the commit after it are one step.          *)

MaxVersion == 3
MaxSessions == 2

SessionIds == 1..MaxSessions

Names == {"n1", "n2"}

\* a mapping with no version counter
Unversioned == [version_id_col |-> ""]

\* User.__mapper_args__
User_mapper_args == [version_id_col |-> "version_id"]

Detached ==
    [loaded |-> FALSE, version_id |-> 0, name |-> "", dirty |-> FALSE,
     deleted |-> FALSE, err |-> ""]

\* the WHERE clause of the UPDATE / DELETE of a loaded User: the primary
\* key, and the version counter where the mapping has one
Where(args, row, obj) ==
    /\ row.exists
    /\ args.version_id_col # "" => row.version_id = obj.version_id

\* the SET clause of the UPDATE
SetClause(args, row, obj) ==
    [row EXCEPT !.name = obj.name,
                !.version_id = IF args.version_id_col # "" THEN obj.version_id + 1 ELSE @]

\* session.get(User, 1), in a session that does not hold the object
get(s) ==
    /\ ~sessions[s].loaded
    /\ user.exists
    /\ sessions' = [sessions EXCEPT ![s] =
            [Detached EXCEPT !.loaded = TRUE, !.version_id = user.version_id,
                             !.name = user.name]]
    /\ UNCHANGED <<user, flushes>>

\* obj.name = n
set_name(s) ==
    \E n \in Names :
        /\ sessions[s].loaded
        /\ ~sessions[s].deleted
        /\ sessions[s].version_id < MaxVersion
        /\ n # sessions[s].name
        /\ sessions' = [sessions EXCEPT ![s].name = n, ![s].dirty = TRUE]
        /\ UNCHANGED <<user, flushes>>

\* session.delete(obj)
delete(s) ==
    /\ sessions[s].loaded
    /\ ~sessions[s].deleted
    /\ sessions' = [sessions EXCEPT ![s].deleted = TRUE]
    /\ UNCHANGED <<user, flushes>>

\* session.commit() with a change to write: the flush emits the DELETE or
\* the UPDATE; the session's objects expire at the commit, and at the
\* rollback a StaleDataError brings
commit_user(s) ==
    LET obj == sessions[s]
        args == User_mapper_args
        matched == Where(args, user, obj)
        kind == IF obj.deleted THEN "DELETE" ELSE "UPDATE"
        row2 == IF ~matched THEN user
                ELSE IF obj.deleted THEN [user EXCEPT !.exists = FALSE]
                ELSE SetClause(args, user, obj)
    IN  /\ obj.loaded
        /\ obj.dirty \/ obj.deleted
        /\ user' = row2
        /\ sessions' = [sessions EXCEPT ![s] =
                [Detached EXCEPT !.err = IF matched THEN "" ELSE "StaleDataError"]]
        /\ flushes' = IF matched
                      THEN flushes \cup
                           {[session |-> s, kind |-> kind, loaded |-> obj.version_id,
                             before |-> user.version_id, after |-> row2.version_id]}
                      ELSE flushes

\* the row as the INSERT of a new User stores it
VersionInit ==
    /\ user \in [exists : {TRUE}, version_id : {1}, name : Names]
    /\ sessions = [s \in SessionIds |-> Detached]
    /\ flushes = {}

VersionIdle ==
    /\ user = [exists |-> FALSE, version_id |-> 0, name |-> ""]
    /\ sessions = << >>
    /\ flushes = {}

\* C6: every UPDATE or DELETE that took effect found the stored version_id
\* equal to the version its session had loaded; an UPDATE that took effect
\* raised version_id by exactly one; of the sessions that loaded the same
\* version at most one wrote, and a session that flushed and did not write
\* got StaleDataError.
C6_VersionCounterGuardsWrites ==
    /\ \A f \in flushes :
            /\ f.loaded = f.before
            /\ f.kind = "UPDATE" => f.after = f.before + 1
    /\ \A f \in flushes, g \in flushes : f.loaded = g.loaded => f = g
    /\ \A s \in DOMAIN sessions :
            sessions[s].err # "" => sessions[s].err = "StaleDataError"

\* two sessions flushed changes on the same loaded version: one wrote, the
\* other got StaleDataError
C6_Witness ==
    \E s \in DOMAIN sessions, f \in flushes :
        /\ sessions[s].err = "StaleDataError"
        /\ f.session # s
        /\ f.kind = "UPDATE"
        /\ user.exists
        /\ user.version_id = f.after

----------------------------------------------------------------------------
(* Part 6: the start_date column of single-table-inheritance.py            *)
(* (specification SpecInheritance).  Manager and Engineer are subclasses   *)
(* of Employee without a table of their own: a Column a subclass declares  *)
(* is added to the employee table.  Both declare start_date through a      *)
(* declared_attr that returns the column the table has under that name,    *)
(* or else a new Column.  The declarative layer maps a Column that is      *)
(* already in the table as it is, appends one whose name is new, and       *)
(* raises ArgumentError for a new Column whose name the table already has. *)
(* The two classes are declared in either order; afterwards clients store  *)
(* employees.                                                              *)

MaxEmployees == 4

Subclasses == {"Manager", "Engineer"}

Dates == {"d1", "d2"}

Col(name, id) == [name |-> name, id |-> id]

\* Employee: id, name, type, company_id
EmployeeColumns ==
    << Col("id", 1), Col("name", 2), Col("type", 3), Col("company_id", 4) >>

\* Table.c.get(key, default)
ColumnsGet(table, key, default) ==
    IF \E i \in 1..Len(table) : table[i].name = key
    THEN table[CHOOSE i \in 1..Len(table) : table[i].name = key]
    ELSE default

\* a declared_attr that builds a Column of its own every time
start_date_new(table, default) == default

\* Manager.start_date / Engineer.start_date:
\*     return Employee.__table__.c.get("start_date", Column(DateTime))
start_date_attr(table, default) == ColumnsGet(table, "start_date", default)

\* what declaring a subclass column does to the table of the base class
AddColumn(table, col) ==
    IF \E i \in 1..Len(table) : table[i] = col
    THEN [err |-> "", table |-> table]
    ELSE IF \E i \in 1..Len(table) : table[i].name = col.name
    THEN [err |-> "ArgumentError", table |-> table]
    ELSE [err |-> "", table |-> Append(table, col)]

\* class Manager(Employee): ... / class Engineer(Employee): ...
declare(cls) ==
    LET default == Col("start_date", Len(EmployeeColumns) + columns_made + 1)
        col == start_date_attr(employee, default)
        r == AddColumn(employee, col)
    IN  /\ import_error = ""
        /\ start_date[cls] = 0
        /\ columns_made' = columns_made + 1
        /\ employee' = r.table
        /\ import_error' = r.err
        /\ start_date' = IF r.err = "" THEN [start_date EXCEPT ![cls] = col.id]
                         ELSE start_date
        /\ UNCHANGED employees

Imported == import_error = "" /\ \A c \in Subclasses : start_date[c] # 0

\* session.add(cls(start_date=d)); session.commit(), once the module is imported
hire(cls) ==
    \E d \in Dates :
        /\ Imported
        /\ Len(employees) < MaxEmployees
        /\ employees' = Append(employees, <<cls, start_date[cls], d>>)
        /\ UNCHANGED <<employee, start_date, columns_made, import_error>>

InheritanceInit ==
    /\ employee = EmployeeColumns
    /\ start_date = [c \in Subclasses |-> 0]
    /\ columns_made = 0
    /\ import_error = ""
    /\ employees = <<>>

InheritanceIdle ==
    /\ employee = <<>>
    /\ start_date = << >>
    /\ columns_made = 0
    /\ import_error = "idle"
    /\ employees = <<>>

StartDateColumns == {i \in 1..Len(employee) : employee[i].name = "start_date"}

\* C11: Manager.start_date and Engineer.start_date map one and the same
\* start_date column of the employee table: the subclass declared first
\* adds it, the other reuses it, no declaration raises, and after both
\* declarations, in either order, the table has exactly one start_date
\* column, in which the rows of both classes keep their start date.
C11_OneStartDateColumn ==
    /\ import_error = ""
    /\ Cardinality(StartDateColumns) <= 1
    /\ \A c \in DOMAIN start_date :
            start_date[c] # 0 =>
                \E i \in StartDateColumns : employee[i].id = start_date[c]
    /\ Imported =>
            /\ Cardinality(StartDateColumns) = 1
            /\ start_date["Manager"] = start_date["Engineer"]
            /\ \A i \in 1..Len(employees) :
                    \E j \in StartDateColumns : employee[j].id = employees[i][2]

\* both classes are declared and one employee of each is stored
C11_Witness ==
    /\ Imported
    /\ \E i \in 1..Len(employees) : employees[i][1] = "Manager"
    /\ \E i \in 1..Len(employees) : employees[i][1] = "Engineer"

----------------------------------------------------------------------------
(* Part 7: the functions of metadata.py (specification SpecMetadata).  The *)
(* module makes one engine on an in-memory database and defines four       *)
(* functions; a client that has imported it calls them in any order.       *)
(* MetaData.create_all checks first: it emits CREATE TABLE for the tables  *)
(* of the MetaData the database does not have, parents before children.    *)
(* registry() makes a MetaData of its own and generate_base() gives the    *)
(* base class that same object as Base.metadata.                           *)

MaxCalls == 4

TableDef(name, cols) == [name |-> name, cols |-> cols]

\* lines 9-24 and 73-88
CoreTables ==
    { TableDef("user_account", <<"id", "name", "fullname">>),
      TableDef("address", <<"id", "user_id", "email_address">>) }

\* lines 34-51
OrmTables ==
    { TableDef("user_account", <<"id", "name", "fullname">>),
      TableDef("address", <<"id", "email_address", "user_id">>) }

Exists(existing, name) == \E e \in existing : e.name = name

\* create_all(engine, checkfirst=False): CREATE TABLE for every table
create_all_unchecked(tables, existing) ==
    IF \E t \in tables : Exists(existing, t.name)
    THEN [tables |-> existing, emitted |-> {}, err |-> "OperationalError"]
    ELSE [tables |-> existing \cup tables,
          emitted |-> {t.name : t \in tables}, err |-> ""]

\* MetaData.create_all(engine)
MetaData_create_all(tables, existing) ==
    LET missing == {t \in tables : ~Exists(existing, t.name)}
    IN  [tables |-> existing \cup missing,
         emitted |-> {t.name : t \in missing}, err |-> ""]

\* registry.generate_base(): the metadata of the base class
generate_base(registry_metadata) == registry_metadata

Created(line, r) ==
    [line |-> line, before |-> engine.tables, emitted |-> r.emitted,
     err |-> r.err]

Called(f) ==
    /\ Len(calls) < MaxCalls
    /\ orm.pc = "idle"
    /\ calls' = Append(calls, f)

core_based_approach ==
    LET r == MetaData_create_all(CoreTables, engine.tables)
    IN  /\ Called("core_based_approach")
        /\ metadatas' = Append(metadatas, CoreTables)
        /\ engine' = [engine EXCEPT !.tables = r.tables]
        /\ last_create' = Created(26, r)
        /\ UNCHANGED orm

\* lines 30-62: the registry, the base, the two classes, the first create_all
orm_based_approach ==
    LET mapped_registry == Len(metadatas) + 1
        Base == generate_base(mapped_registry)
        declared == [Append(metadatas, {}) EXCEPT ![Base] = OrmTables]
        r == MetaData_create_all(declared[mapped_registry], engine.tables)
    IN  /\ Called("orm_based_approach")
        /\ metadatas' = declared
        /\ orm' = [pc |-> "line 65", registry |-> mapped_registry, base |-> Base]
        /\ engine' = [engine EXCEPT !.tables = r.tables]
        /\ last_create' = Created(62, r)

\* line 65
Base_metadata_create_all ==
    LET r == MetaData_create_all(metadatas[orm.base], engine.tables)
    IN  /\ orm.pc = "line 65"
        /\ orm' = [orm EXCEPT !.pc = "idle"]
        /\ engine' = [engine EXCEPT !.tables = r.tables]
        /\ last_create' = Created(65, r)
        /\ UNCHANGED <<metadatas, calls>>

\* lines 69-104: two MetaData objects, no statement is sent
hybrid_approach ==
    /\ Called("hybrid_approach")
    /\ metadatas' = metadatas \o << {}, CoreTables >>
    /\ UNCHANGED <<engine, orm, last_create>>

\* lines 108-117: CREATE TABLE raises when the table exists already
reflection ==
    LET t == TableDef("table_name", <<"x", "y">>)
    IN  /\ Called("reflection")
        /\ IF Exists(engine.tables, "table_name")
           THEN /\ last_create' =
                    [line |-> 109, before |-> engine.tables, emitted |-> {},
                     err |-> "OperationalError"]
                /\ UNCHANGED <<engine, metadatas>>
           ELSE /\ last_create' =
                    [line |-> 109, before |-> engine.tables,
                     emitted |-> {"table_name"}, err |-> ""]
                /\ engine' = [tables |-> engine.tables \cup {t},
                              rows |-> engine.rows \cup { <<1, 1>>, <<2, 4>> }]
                /\ metadatas' = Append(metadatas, {t})
        /\ UNCHANGED orm

NoCreate == [line |-> 0, before |-> {}, emitted |-> {}, err |-> ""]

MetadataInit ==
    /\ engine = [tables |-> {}, rows |-> {}]
    /\ metadatas = <<>>
    /\ orm = [pc |-> "idle", registry |-> 0, base |-> 0]
    /\ last_create = NoCreate
    /\ calls = <<>>

MetadataIdle ==
    /\ engine = [tables |-> {}, rows |-> {}]
    /\ metadatas = <<>>
    /\ orm = [pc |-> "off", registry |-> 0, base |-> 0]
    /\ last_create = NoCreate
    /\ calls = <<>>

\* C13: in orm_based_approach the metadata of the registry and Base.metadata
\* are the identical object, so the create_all of line 65, which follows the
\* one of line 62, creates no table again, raises no error, and leaves the
\* tables of the database as the first call left them.
C13_SecondCreateAllIdempotent ==
    /\ orm.pc # "off" => orm.registry = orm.base
    /\ last_create.line = 65 =>
            /\ last_create.err = ""
            /\ last_create.emitted = {}
            /\ engine.tables = last_create.before
            /\ \A t \in metadatas[orm.base] : Exists(engine.tables, t.name)

\* line 65 has run on a database where line 62 had created the tables
C13_Witness ==
    /\ last_create.line = 65
    /\ calls[1] = "orm_based_approach"
    /\ Exists(engine.tables, "address")

----------------------------------------------------------------------------
(* Part 8: the relationship() declarations of the modules that declare     *)
(* mapped classes with back_populates (specification SpecMappers).  A      *)
(* client imports one module and instantiates its mapped classes.  Class   *)
(* declarations only record the relationships; the first instantiation of  *)
(* any mapped class configures all mappers of the module: every            *)
(* relationship resolves its target and its join condition, and links      *)
(* itself with the relationship its back_populates names.  When that       *)
(* fails the exception leaves the constructor, the mappers stay            *)
(* unusable, and every later constructor call raises InvalidRequestError.  *)

MaxInstances == 4

Modules ==
    { "orm-api.py", "orm-data-manipulation.py", "orm-quickstart.py",
      "orm-related-objects.py", "mapper-class-behavior.py",
      "joined-table-inheritance.py", "single-table-inheritance.py" }

\* the mapped classes that take part in a relationship
MappedClasses(s) ==
    {r.cls : r \in Relationships(s)} \cup {r.target : r \in Relationships(s)}

\* the relationship r of the module and the relationship its back_populates
\* names on its target class
ReverseProperties(s) ==
    { <<r, q>> \in Relationships(s) \X Relationships(s) :
        r.back # "" /\ q.cls = r.target /\ q.attr = r.back }

\* cls(...): a client makes an instance of a mapped class
construct(cls) ==
    /\ Len(constructed) < MaxInstances
    /\ LET e == CASE configured = "failed" -> "InvalidRequestError"
                  [] configured = "no" -> ConfigureError(module)
                  [] OTHER -> ""
       IN /\ constructed' = Append(constructed, [cls |-> cls, exc |-> e])
          /\ configured' = IF configured # "no" THEN configured
                            ELSE IF e = "" THEN "yes" ELSE "failed"
          /\ reverse' = IF configured = "no" /\ e = ""
                         THEN ReverseProperties(module) ELSE reverse
    /\ UNCHANGED module

MappersInit ==
    /\ module \in Modules
    /\ configured = "no"
    /\ reverse = {}
    /\ constructed = <<>>

MappersIdle ==
    /\ module = ""
    /\ configured = "no"
    /\ reverse = {}
    /\ constructed = <<>>

\* C22: every relationship declared with back_populates = b names an
\* attribute b that is a relationship of its target class, which targets
\* the declaring class and names the declaring attribute as its own
\* back_populates; in joined-table-inheritance.py this holds for
\* Company.employees, Company.managers and Company.engineers against
\* company_employees, company_managers and company_engineers of Employee,
\* Manager and Engineer, and Company.engineers targets Engineer.
C22_BackPopulatesConsistent ==
    /\ \A r \in Relationships(module) :
            r.back # "" =>
                \E q \in Relationships(module) :
                    /\ q.cls = r.target /\ q.attr = r.back
                    /\ q.target = r.cls /\ q.back = r.attr
    /\ module = "joined-table-inheritance.py" =>
            /\ Rel("Company", "company", "employees",
                   "Employee", "employee", "company_employees") \in Relationships(module)
            /\ Rel("Company", "company", "managers",
                   "Manager", "manager", "company_managers") \in Relationships(module)
            /\ Rel("Company", "company", "engineers",
                   "Engineer", "engineer", "company_engineers") \in Relationships(module)

----------------------------------------------------------------------------
(* Specifications.  Each part is explored on its own: the variables of    *)
(* the other parts rest at their idle values.                              *)

notScripts ==
    <<validatorVars, hybridVars, compositeVars, versionVars,
      inheritanceVars, metadataVars, mapperVars>>

notValidators ==
    <<scriptVars, hybridVars, compositeVars, versionVars,
      inheritanceVars, metadataVars, mapperVars>>

notHybrid ==
    <<scriptVars, validatorVars, compositeVars, versionVars,
      inheritanceVars, metadataVars, mapperVars>>

notComposite ==
    <<scriptVars, validatorVars, hybridVars, versionVars,
      inheritanceVars, metadataVars, mapperVars>>

notInheritance ==
    <<scriptVars, validatorVars, hybridVars, compositeVars, versionVars,
      metadataVars, mapperVars>>

notMetadata ==
    <<scriptVars, validatorVars, hybridVars, compositeVars, versionVars,
      inheritanceVars, mapperVars>>

notMappers ==
    <<scriptVars, validatorVars, hybridVars, compositeVars, versionVars,
      inheritanceVars, metadataVars>>

notVersion ==
    <<scriptVars, validatorVars, hybridVars, compositeVars,
      inheritanceVars, metadataVars, mapperVars>>

Init ==
    ScriptsInit /\ ValidatorsIdle /\ HybridIdle /\ CompositeIdle /\ VersionIdle
    /\ InheritanceIdle /\ MetadataIdle /\ MappersIdle

Next ==
    \/ create_all /\ UNCHANGED notScripts
    \/ init /\ UNCHANGED notScripts
    \/ open /\ UNCHANGED notScripts
    \/ execute /\ UNCHANGED notScripts
    \/ add /\ UNCHANGED notScripts
    \/ flush /\ UNCHANGED notScripts
    \/ commit /\ UNCHANGED notScripts
    \/ rollback /\ UNCHANGED notScripts
    \/ close /\ UNCHANGED notScripts
    \/ one /\ UNCHANGED notScripts
    \/ attr /\ UNCHANGED notScripts
    \/ fetch /\ UNCHANGED notScripts
    \/ relate /\ UNCHANGED notScripts
    \/ finish /\ UNCHANGED notScripts

Spec == Init /\ [][Next]_vars

InitValidators ==
    ScriptsIdle /\ ValidatorsInit /\ HybridIdle /\ CompositeIdle /\ VersionIdle
    /\ InheritanceIdle /\ MetadataIdle /\ MappersIdle

NextValidators ==
    \/ set_email /\ UNCHANGED notValidators
    \/ append /\ UNCHANGED notValidators
    \/ validate /\ UNCHANGED notValidators

SpecValidators == InitValidators /\ [][NextValidators]_vars

InitHybrid ==
    ScriptsIdle /\ ValidatorsIdle /\ HybridInit /\ CompositeIdle /\ VersionIdle
    /\ InheritanceIdle /\ MetadataIdle /\ MappersIdle

NextHybrid ==
    \/ set_hybrid_email /\ UNCHANGED notHybrid
    \/ set_column /\ UNCHANGED notHybrid
    \/ get_email /\ UNCHANGED notHybrid
    \/ select_email /\ UNCHANGED notHybrid

SpecHybrid == InitHybrid /\ [][NextHybrid]_vars

InitComposite ==
    ScriptsIdle /\ ValidatorsIdle /\ HybridIdle /\ CompositeInit /\ VersionIdle
    /\ InheritanceIdle /\ MetadataIdle /\ MappersIdle

NextComposite ==
    \/ store /\ UNCHANGED notComposite
    \/ load /\ UNCHANGED notComposite
    \/ assign /\ UNCHANGED notComposite
    \/ composite_values /\ UNCHANGED notComposite

SpecComposite == InitComposite /\ [][NextComposite]_vars

InitVersion ==
    ScriptsIdle /\ ValidatorsIdle /\ HybridIdle /\ CompositeIdle /\ VersionInit
    /\ InheritanceIdle /\ MetadataIdle /\ MappersIdle

NextVersion ==
    \/ \E s \in SessionIds : get(s) /\ UNCHANGED notVersion
    \/ \E s \in SessionIds : set_name(s) /\ UNCHANGED notVersion
    \/ \E s \in SessionIds : delete(s) /\ UNCHANGED notVersion
    \/ \E s \in SessionIds : commit_user(s) /\ UNCHANGED notVersion

SpecVersion == InitVersion /\ [][NextVersion]_vars

InitInheritance ==
    ScriptsIdle /\ ValidatorsIdle /\ HybridIdle /\ CompositeIdle /\ VersionIdle
    /\ InheritanceInit /\ MetadataIdle /\ MappersIdle

NextInheritance ==
    \/ \E c \in Subclasses : declare(c) /\ UNCHANGED notInheritance
    \/ \E c \in Subclasses : hire(c) /\ UNCHANGED notInheritance

SpecInheritance == InitInheritance /\ [][NextInheritance]_vars

InitMetadata ==
    ScriptsIdle /\ ValidatorsIdle /\ HybridIdle /\ CompositeIdle /\ VersionIdle
    /\ InheritanceIdle /\ MetadataInit /\ MappersIdle

NextMetadata ==
    \/ core_based_approach /\ UNCHANGED notMetadata
    \/ orm_based_approach /\ UNCHANGED notMetadata
    \/ Base_metadata_create_all /\ UNCHANGED notMetadata
    \/ hybrid_approach /\ UNCHANGED notMetadata
    \/ reflection /\ UNCHANGED notMetadata

SpecMetadata == InitMetadata /\ [][NextMetadata]_vars

InitMappers ==
    ScriptsIdle /\ ValidatorsIdle /\ HybridIdle /\ CompositeIdle /\ VersionIdle
    /\ InheritanceIdle /\ MetadataIdle /\ MappersInit

NextMappers ==
    \E cls \in MappedClasses(module) : construct(cls) /\ UNCHANGED notMappers

SpecMappers == InitMappers /\ [][NextMappers]_vars

----------------------------------------------------------------------------
(* The version counter of conditional-version-counters.py, a script of     *)
(* part 1 (specification Spec).  Column n of its user row is version_uuid: *)
(* 1 is the uuid given at line 25, 2 the uuid assigned at line 30.         *)

\* C7: in conditional-version-counters.py the commit of line 35, which
\* changes only name, leaves the stored version_uuid as the commit of line
\* 31 stored it: when the script has ended the row has name "u3" and the
\* version_uuid the script assigned at line 30.
C7_NameOnlyCommitKeepsVersion ==
    (script = "conditional-version-counters.py" /\ Ended) =>
        \E r \in committed.rows : r.t = "user" /\ r.v = "u3" /\ r.n = 2

====
